---- MODULE Spec2Model ----
(***************************************************************************)
(* The lazy resolution pipeline of rsip-dns: the resumable resolvables     *)
(* (IP literal, A/AAAA, SRV, NAPTR), the vector combinator that drives     *)
(* them, and the just-domain fallback state machine, driven one            *)
(* resolve_next call at a time against a DNS client whose answers are      *)
(* chosen by the environment.  A resolve_next call is split at its await   *)
(* points: it runs until it needs a DNS answer, suspends with the query    *)
(* outstanding, and continues when the answer arrives.                     *)
(***************************************************************************)
EXTENDS Integers, Sequences, FiniteSets, TLC

VARIABLES
    root,          \* the resolvable being driven: [kind, node, ctx], ctx being the
                   \* Context a lookup was built from (None for a bare resolvable)
    pc,            \* "idle" between resolve_next calls, "await" while one is suspended
    state_before,  \* the local of JustDomainLookup::resolve_next captured before the await
    inflight,      \* the DNS queries issued and not yet answered
    calls,         \* every DNS query issued so far, in order: [kind, name, phase]
    replies,       \* the answers the DNS client gave, in order
    out,           \* what the resolve_next calls returned so far, in order:
                   \* [tag, val, phase], the phase being the one the call ended in
    zone,          \* the DNS data of a comparison of two clients (None when the
                   \* answers are chosen freely)
    twin,          \* the same resolvable driven against the client that carries
                   \* no glue: [node, out, calls] (None outside a comparison)
    events         \* what the caller did besides completed resolve_next calls, in
                   \* order: state() calls with their result, cancelled calls

vars == <<root, pc, state_before, inflight, calls, replies, out, zone, twin, events>>

----------------------------------------------------------------------------
(* Bounds of the model *)

\* longest ip_addrs list of an AddrRecord the DNS client returns
MaxAddrs == 2
\* most entries of an SrvRecord the DNS client returns
MaxSrvEntries == 2
\* most entries of a NaptrRecord the DNS client returns
MaxNaptrEntries == 2
\* the DNS client answers this many queries with a record; later queries fail
MaxAnswers == 3
\* resolve_next is called until it has returned None this many times
MaxNoneCalls == 2
\* the caller calls state(), or cancels a call, at most this many times in a run
MaxEvents == 2
\* an SrvRecord handed to sorted() has at most this many entries
MaxSortEntries == 3

----------------------------------------------------------------------------
(* Option<T> and the results of a (possibly suspended) resolve_next *)

None == [tag |-> "None"]
Some(v) == [tag |-> "Some", val |-> v]
\* the call is suspended at the await of DNS query q
Need(q) == [tag |-> "Need", q |-> q]

Min(S) == CHOOSE x \in S : \A y \in S : x <= y

Range(s) == {s[i] : i \in 1..Len(s)}

\* the sequences without repetition over S of length 0..n
DistinctSeqs(S, n) ==
    UNION {{s \in [1..k -> S] : \A i, j \in 1..k : i # j => s[i] # s[j]} : k \in 0..n}

----------------------------------------------------------------------------
(* rsip::Transport, as far as the resolvables use it *)

Transports == {"Udp", "Tcp", "Tls"}

\* Transport::protocol(): the protocol below a transport
Protocol(t) == IF t = "Tls" THEN "Tcp" ELSE t

\* Transport::default_port()
DefaultPort(t) == IF t = "Tls" THEN 5061 ELSE 5060

\* Transport::default_secure_transport() / default_insecure_transport()
DefaultTransport(secure) == IF secure THEN "Tls" ELSE "Udp"

\* SrvDomain::transport(): the transport of the Targets of an SRV domain
SrvDomainTransport(sd) ==
    IF sd.secure /\ sd.protocol = "Tcp" THEN "Tls" ELSE sd.protocol

\* Target { ip_addr, port, transport, ttl }
Target(ip, port, transport, ttl) ==
    [ip_addr |-> ip, port |-> port, transport |-> transport, ttl |-> ttl]

----------------------------------------------------------------------------
(* The records a DnsClient returns, and the answers the environment draws *)

\* SrvDomain { secure, protocol, domain }
SrvDomain(secure, protocol, domain) ==
    [secure |-> secure, protocol |-> protocol, domain |-> domain]

\* AddrRecord { domain, ip_addrs, ttl }
AddrRecord(domain, ip_addrs, ttl) ==
    [domain |-> domain, ip_addrs |-> ip_addrs, ttl |-> ttl]

\* SrvRecord { entries, domain, ttl, additional_hosts }
SrvRecord(entries, domain, ttl, additional_hosts) ==
    [entries |-> entries, domain |-> domain, ttl |-> ttl,
     additional_hosts |-> additional_hosts]

\* NaptrRecord { entries, domain, ttl, additional_srvs }
NaptrRecord(entries, domain, ttl, additional_srvs) ==
    [entries |-> entries, domain |-> domain, ttl |-> ttl,
     additional_srvs |-> additional_srvs]

\* the bare domain of the request, and the hosts SRV entries point at
BareDomain == "example.com"

\* the TTLs of the records, one per kind so that a Target shows where its ttl came from
AddrTtls == {60}
GlueTtls == {120}
SrvTtls == {400}
NaptrTtls == {600}

\* the address lists ip_lookup can return: up to MaxAddrs addresses, delivered
\* in an order that is not the sorted one
AddrLists == {[i \in 1..k |-> k + 1 - i] : k \in 0..MaxAddrs}

\* the i-th SRV entry the client can return: (priority, weight) run through
\* (10,5), (10,50), (20,100), ...; the port names the entry
SrvEntryOf(i) ==
    [priority |-> 10 * ((i + 1) \div 2),
     weight   |-> IF i = 1 THEN 5 ELSE 50 * (i - 1),
     port     |-> 5060 + i,
     target   |-> IF i % 2 = 1 THEN "t1" ELSE "t2"]

Reverse(s) == [i \in 1..Len(s) |-> s[Len(s) + 1 - i]]

\* the entry lists an SrvRecord can carry: up to MaxSrvEntries entries, in
\* ascending or in descending order of their total weight
SrvEntryLists ==
    UNION {{[i \in 1..k |-> SrvEntryOf(i)], Reverse([i \in 1..k |-> SrvEntryOf(i)])} :
           k \in 0..MaxSrvEntries}

\* the A/AAAA glue a recursive client carries for a host in the ADDITIONAL section
GlueRecords(host) ==
    {AddrRecord(host, IF host = "t1" THEN <<2, 1>> ELSE <<1>>, ttl) : ttl \in GlueTtls}

\* the additional_hosts a record can carry: glue for any of the hosts D
GlueMaps(D) ==
    UNION {{f \in [H -> UNION {GlueRecords(h) : h \in H}] :
               \A h \in H : f[h] \in GlueRecords(h)} :
           H \in SUBSET D}

\* SrvRecord::targets(): the hosts the entries point at
SrvTargets(es) == {es[i].target : i \in 1..Len(es)}

\* the SrvRecords a client can return for an SRV domain: any entries, with glue
\* for any of their hosts
SrvRecords(sd) ==
    UNION {{SrvRecord(es, sd, ttl, hosts) :
               ttl \in SrvTtls, hosts \in GlueMaps(SrvTargets(es))} :
           es \in SrvEntryLists}

\* NaptrEntry { order, preference, flags, services, regexp, replacement }; the
\* replacement is kept as the labels of its DNS name
NaptrEntry(order, preference, flags, services, replacement) ==
    [order |-> order, preference |-> preference, flags |-> flags,
     services |-> services, replacement |-> replacement]

\* the NAPTR entries the client can return
NaptrEntries ==
    {NaptrEntry(50, 10, "S", "SipsD2t", <<"_sips", "_tcp", BareDomain>>),
     NaptrEntry(10, 99, "S", "SipD2u", <<"_sip", "_udp", BareDomain>>),
     NaptrEntry(10, 1, "S", "SipD2t", <<"_sip", "_tcp", BareDomain>>)}

----------------------------------------------------------------------------
(* Ordering helpers *)

\* seq sorted by ascending key, keys[i] being the key of seq[i]; entries of
\* equal key are kept in input order (what the standard library's stable sort
\* returns)
SortByKey(seq, keys) ==
    LET n == Len(seq)
        pos(i) == 1 + Cardinality({j \in 1..n :
                        \/ keys[j] < keys[i]
                        \/ (keys[j] = keys[i] /\ j < i)})
    IN [p \in 1..n |-> seq[CHOOSE i \in 1..n : pos(i) = p]]

\* SrvEntry::total_weight, in u16 arithmetic
total_weight(e) == (((10000 - e.priority) % 65536) + e.weight) % 65536

\* the u16 arithmetic of total_weight overflows: 10000 - priority goes below 0,
\* or the sum goes above u16::MAX
total_weight_overflows(e) ==
    \/ e.priority > 10000
    \/ (10000 - e.priority) + e.weight > 65535

ReverseTotalWeight(e) == 0 - total_weight(e)

\* SrvRecord::sorted
sorted(rec) ==
    [rec EXCEPT !.entries = SortByKey(rec.entries,
                             [i \in 1..Len(rec.entries) |-> ReverseTotalWeight(rec.entries[i])])]

\* SrvRecord::domains_with_ports
domains_with_ports(rec) ==
    [i \in 1..Len(rec.entries) |-> <<rec.entries[i].target, rec.entries[i].port>>]

\* a variant that takes the protocol of the SRV domain as it stands
SrvRecordProtocol(rec) == rec.domain.protocol

\* SrvRecord::transport
SrvRecordTransport(rec) == SrvDomainTransport(rec.domain)

\* SrvRecord::get_additional_for_target
get_additional_for_target(rec, target) ==
    IF target \in DOMAIN rec.additional_hosts
    THEN Some(rec.additional_hosts[target]) ELSE None

----------------------------------------------------------------------------
(* ResolvableVec: the vector combinator *)

\* ResolvableVec::default(): never initialized
VecUnset == [set |-> FALSE, items |-> <<>>]

\* ResolvableVec::empty()
VecEmpty == [set |-> TRUE, items |-> <<>>]

\* ResolvableVec::non_empty(items)
VecNonEmpty(items) == [set |-> TRUE, items |-> items]

\* ResolvableVec::state()
VecState(v) ==
    IF ~v.set THEN "Unset" ELSE IF v.items = <<>> THEN "Empty" ELSE "NonEmpty"

\* ResolvableVec::resolve_next: drive the first child; a child that returns None
\* is dropped and the next one driven, until a child yields (or suspends) or
\* none is left; driven[i] is what resolve_next of child i gives
VecResolveNext(v, driven) ==
    LET n == Len(v.items)
        live == {i \in 1..n : driven[i].res.tag # "None"}
    IN IF live = {}
       THEN [self |-> [v EXCEPT !.items = <<>>], res |-> None]
       ELSE LET i == Min(live)
                r == driven[i]
            IN [self |-> [v EXCEPT !.items = <<r.self>> \o SubSeq(v.items, i + 1, n)],
                res  |-> r.res]

\* the child suspended at a DNS query is the first one: hand it the answer
VecDeliver(v, answered) == [v EXCEPT !.items[1] = answered]

----------------------------------------------------------------------------
(* ResolvableIpAddr: the IP-literal resolvable *)

\* ResolvableIpAddr::new_with_ttl
IpNewWithTtl(ip_addr, port, transport, ttl) ==
    [ip_addr |-> ip_addr, port |-> port, transport |-> transport, ttl |-> ttl,
     resolved |-> FALSE]

\* ResolvableIpAddr::new: the default ttl is 300
IpNew(ip_addr, port, transport) == IpNewWithTtl(ip_addr, port, transport, 300)

\* ResolvableIpAddr::state
IpState(r) == IF r.resolved THEN "Empty" ELSE "NonEmpty"

\* a variant that never marks the resolvable resolved
IpResolveNextAgain(r) ==
    [self |-> r, res |-> Some(Target(r.ip_addr, r.port, r.transport, r.ttl))]

\* ResolvableIpAddr::resolve_next: the Target once, None from then on
IpResolveNext(r) ==
    IF r.resolved
    THEN [self |-> r, res |-> None]
    ELSE [self |-> [r EXCEPT !.resolved = TRUE],
          res  |-> Some(Target(r.ip_addr, r.port, r.transport, r.ttl))]

----------------------------------------------------------------------------
(* ResolvableAddrRecord *)

\* a variant that takes the default port of the transport, not the given port
AddrNewDefaultPort(domain, port, transport) ==
    [domain |-> domain, port |-> DefaultPort(transport), transport |-> transport,
     resolvable_ip_addrs |-> VecUnset]

\* ResolvableAddrRecord::new
AddrNew(domain, port, transport) ==
    [domain |-> domain, port |-> port, transport |-> transport,
     resolvable_ip_addrs |-> VecUnset]

\* ResolvableAddrRecord::from_resolvable_ip
AddrFromResolvableIp(domain, port, transport, resolvable_ip) ==
    [domain |-> domain, port |-> port, transport |-> transport,
     resolvable_ip_addrs |-> VecNonEmpty(<<resolvable_ip>>)]

\* ResolvableAddrRecord::state
AddrState(a) == VecState(a.resolvable_ip_addrs)

\* the is_unset() test of resolve_next: the ip_lookup is still to be issued
AddrNeedsLookup(a) == VecState(a.resolvable_ip_addrs) = "Unset"

\* a variant that builds the children with the default ttl instead of the
\* record's
AddrResolveDomainDefaultTtl(a, reply) ==
    IF reply.tag = "Ok"
    THEN [a EXCEPT !.resolvable_ip_addrs = VecNonEmpty(
              [i \in 1..Len(reply.val.ip_addrs) |->
                  IpNew(reply.val.ip_addrs[i], a.port, a.transport)])]
    ELSE [a EXCEPT !.resolvable_ip_addrs = VecEmpty]

\* a variant that builds the children from the last address to the first
AddrResolveDomainReversed(a, reply) ==
    IF reply.tag = "Ok"
    THEN [a EXCEPT !.resolvable_ip_addrs = VecNonEmpty(
              [i \in 1..Len(reply.val.ip_addrs) |->
                  IpNewWithTtl(reply.val.ip_addrs[Len(reply.val.ip_addrs) + 1 - i],
                               a.port, a.transport, reply.val.ttl)])]
    ELSE [a EXCEPT !.resolvable_ip_addrs = VecEmpty]

\* a variant that leaves the resolvable unset after a first failed lookup, so
\* that the lookup is issued a second time (port 0 marks the second attempt)
AddrResolveDomainRetry(a, reply) ==
    IF reply.tag = "Ok"
    THEN [a EXCEPT !.resolvable_ip_addrs = VecNonEmpty(
              [i \in 1..Len(reply.val.ip_addrs) |->
                  IpNewWithTtl(reply.val.ip_addrs[i], a.port, a.transport,
                               reply.val.ttl)])]
    ELSE IF a.port # 0
         THEN [a EXCEPT !.port = 0]
         ELSE [a EXCEPT !.resolvable_ip_addrs = VecEmpty]

\* ResolvableAddrRecord::resolve_domain, from the answer of ip_lookup on
AddrResolveDomain(a, reply) ==
    IF reply.tag = "Ok"
    THEN [a EXCEPT !.resolvable_ip_addrs = VecNonEmpty(
              [i \in 1..Len(reply.val.ip_addrs) |->
                  IpNewWithTtl(reply.val.ip_addrs[i], a.port, a.transport,
                               reply.val.ttl)])]
    ELSE [a EXCEPT !.resolvable_ip_addrs = VecEmpty]

\* a variant that marks the resolvable resolved before its lookup has returned
AddrResolveNextMarkFirst(a) ==
    IF AddrNeedsLookup(a)
    THEN [self |-> [a EXCEPT !.resolvable_ip_addrs = VecEmpty],
          res |-> Need([kind |-> "ip", name |-> a.domain])]
    ELSE LET r == VecResolveNext(a.resolvable_ip_addrs,
                      [i \in 1..Len(a.resolvable_ip_addrs.items) |->
                          IpResolveNext(a.resolvable_ip_addrs.items[i])])
         IN [self |-> [a EXCEPT !.resolvable_ip_addrs = r.self], res |-> r.res]

\* ResolvableAddrRecord::resolve_next
AddrResolveNext(a) ==
    IF AddrNeedsLookup(a)
    THEN [self |-> a, res |-> Need([kind |-> "ip", name |-> a.domain])]
    ELSE LET r == VecResolveNext(a.resolvable_ip_addrs,
                      [i \in 1..Len(a.resolvable_ip_addrs.items) |->
                          IpResolveNext(a.resolvable_ip_addrs.items[i])])
         IN [self |-> [a EXCEPT !.resolvable_ip_addrs = r.self], res |-> r.res]

\* the answer of the ip_lookup this resolvable is suspended at
AddrDeliver(a, reply) == AddrResolveDomain(a, reply)

----------------------------------------------------------------------------
(* ResolvableSrvRecord *)

\* a variant that drops the secure flag of the SrvDomain
SrvNewInsecure(domain) ==
    [domain |-> [domain EXCEPT !.secure = FALSE], resolvable_addr_records |-> VecUnset]

\* ResolvableSrvRecord::new
SrvNew(domain) == [domain |-> domain, resolvable_addr_records |-> VecUnset]

\* a variant that ignores additional_hosts and always builds a live resolvable
SrvEntryChildrenNoGlue(rec, domain_port) ==
    <<AddrNew(domain_port[1], domain_port[2], SrvRecordTransport(rec))>>

\* a variant that takes only the first glue address of the target
SrvEntryChildrenFirstGlue(rec, domain_port) ==
    LET domain    == domain_port[1]
        port      == domain_port[2]
        transport == SrvRecordTransport(rec)
        glue      == get_additional_for_target(rec, domain)
    IN IF glue.tag = "Some" /\ glue.val.ip_addrs # <<>>
       THEN <<AddrFromResolvableIp(domain, port, transport,
                  IpNewWithTtl(glue.val.ip_addrs[1], port, transport, glue.val.ttl))>>
       ELSE <<AddrNew(domain, port, transport)>>

\* a variant that uses glue only when the record has glue for every target
SrvEntryChildrenAllOrNothing(rec, domain_port) ==
    LET domain    == domain_port[1]
        port      == domain_port[2]
        transport == SrvRecordTransport(rec)
        glue      == get_additional_for_target(rec, domain)
    IN IF glue.tag = "Some" /\ SrvTargets(rec.entries) \subseteq DOMAIN rec.additional_hosts
       THEN [i \in 1..Len(glue.val.ip_addrs) |->
                AddrFromResolvableIp(domain, port, transport,
                    IpNewWithTtl(glue.val.ip_addrs[i], port, transport, glue.val.ttl))]
       ELSE <<AddrNew(domain, port, transport)>>

\* the children built for one SRV entry: one pre-resolved A/AAAA resolvable per
\* glue address when additional_hosts has the target, else one live resolvable
SrvEntryChildren(rec, domain_port) ==
    LET domain    == domain_port[1]
        port      == domain_port[2]
        transport == SrvRecordTransport(rec)
        glue      == get_additional_for_target(rec, domain)
    IN IF glue.tag = "Some"
       THEN [i \in 1..Len(glue.val.ip_addrs) |->
                AddrFromResolvableIp(domain, port, transport,
                    IpNewWithTtl(glue.val.ip_addrs[i], port, transport, glue.val.ttl))]
       ELSE <<AddrNew(domain, port, transport)>>

\* the loop over srv_record.domains_with_ports() pushing the children
RECURSIVE SrvChildrenFrom(_, _)
SrvChildrenFrom(rec, i) ==
    IF i > Len(domains_with_ports(rec)) THEN <<>>
    ELSE SrvEntryChildren(rec, domains_with_ports(rec)[i]) \o SrvChildrenFrom(rec, i + 1)

\* a variant that keeps only the domain of the record and stays uninitialized
SrvFromSrvRecordLazy(rec) == [domain |-> rec.domain, resolvable_addr_records |-> VecUnset]

\* ResolvableSrvRecord::from_srv_record
SrvFromSrvRecord(rec) ==
    [domain |-> rec.domain,
     resolvable_addr_records |-> VecNonEmpty(SrvChildrenFrom(rec, 1))]

\* ResolvableSrvRecord::state
SrvState(s) == VecState(s.resolvable_addr_records)

\* a variant that queries again once the children are used up
SrvNeedsLookupWhenDrained(s) ==
    VecState(s.resolvable_addr_records) \in {"Unset", "Empty"}

\* the is_unset() test of resolve_next: the srv_lookup is still to be issued
SrvNeedsLookup(s) == VecState(s.resolvable_addr_records) = "Unset"

\* ResolvableSrvRecord::resolve_domain, from the answer of srv_lookup on
SrvResolveDomain(s, reply) ==
    IF reply.tag = "Some"
    THEN [s EXCEPT !.resolvable_addr_records = VecNonEmpty(SrvChildrenFrom(reply.val, 1))]
    ELSE [s EXCEPT !.resolvable_addr_records = VecEmpty]

\* a variant that moves on to the next entry as soon as the child of the
\* current one has yielded a Target
SrvResolveNextAdvancing(s) ==
    IF SrvNeedsLookup(s)
    THEN [self |-> s, res |-> Need([kind |-> "srv", name |-> s.domain])]
    ELSE LET r == VecResolveNext(s.resolvable_addr_records,
                      [i \in 1..Len(s.resolvable_addr_records.items) |->
                          AddrResolveNext(s.resolvable_addr_records.items[i])])
         IN [self |-> [s EXCEPT !.resolvable_addr_records =
                          IF r.res.tag = "Some"
                          THEN [r.self EXCEPT !.items = Tail(r.self.items)]
                          ELSE r.self],
             res |-> r.res]

\* ResolvableSrvRecord::resolve_next
SrvResolveNext(s) ==
    IF SrvNeedsLookup(s)
    THEN [self |-> s, res |-> Need([kind |-> "srv", name |-> s.domain])]
    ELSE LET r == VecResolveNext(s.resolvable_addr_records,
                      [i \in 1..Len(s.resolvable_addr_records.items) |->
                          AddrResolveNext(s.resolvable_addr_records.items[i])])
         IN [self |-> [s EXCEPT !.resolvable_addr_records = r.self], res |-> r.res]

\* a variant in which a failed ip_lookup of a child ends the whole resolvable
SrvDeliverFailFast(s, reply) ==
    IF SrvNeedsLookup(s)
    THEN SrvResolveDomain(s, reply)
    ELSE IF reply.tag = "Err"
         THEN [s EXCEPT !.resolvable_addr_records = VecEmpty]
         ELSE [s EXCEPT !.resolvable_addr_records =
                   VecDeliver(s.resolvable_addr_records,
                              AddrDeliver(s.resolvable_addr_records.items[1], reply))]

\* the answer goes to the srv_lookup of this resolvable when that is the query
\* outstanding, else to the child suspended at its ip_lookup
SrvDeliver(s, reply) ==
    IF SrvNeedsLookup(s)
    THEN SrvResolveDomain(s, reply)
    ELSE [s EXCEPT !.resolvable_addr_records =
              VecDeliver(s.resolvable_addr_records,
                         AddrDeliver(s.resolvable_addr_records.items[1], reply))]

----------------------------------------------------------------------------
(* ResolvableNaptrRecord *)

\* NaptrServices::transport(): the one transport a services variant carries
NaptrServicesTransport(services) ==
    CASE services = "SipD2t"  -> Some("Tcp")
      [] services = "SipD2u"  -> Some("Udp")
      [] services = "SipsD2t" -> Some("Tls")
      [] OTHER                -> None

\* TryInto<SrvDomain> for NaptrEntry: the SRV domain the replacement names,
\* _sip/_sips and _<proto> parsed off the front of the name
NaptrEntryToSrvDomain(e) ==
    LET r == e.replacement
    IN IF /\ Len(r) = 3
          /\ r[1] \in {"_sip", "_sips"}
          /\ r[2] \in {"_udp", "_tcp"}
       THEN Some(SrvDomain(r[1] = "_sips", IF r[2] = "_udp" THEN "Udp" ELSE "Tcp", r[3]))
       ELSE None

NaptrOrderKey(e) == e.order * 65536 + e.preference

\* NaptrRecord::iter(): the entries in ascending order, then ascending
\* preference, then input order
NaptrRecordIter(rec) ==
    SortByKey(rec.entries, [i \in 1..Len(rec.entries) |-> NaptrOrderKey(rec.entries[i])])

\* NaptrRecord::get_additional_srv
get_additional_srv(rec, srv_domain) ==
    IF srv_domain \in DOMAIN rec.additional_srvs
    THEN Some(rec.additional_srvs[srv_domain]) ELSE None

\* ResolvableNaptrRecord::new
NaptrNew(domain, available_transports) ==
    [domain |-> domain, available_transports |-> available_transports,
     resolvable_srv_records |-> VecUnset]

\* ResolvableNaptrRecord::state
NaptrState(n) == VecState(n.resolvable_srv_records)

\* the is_unset() test of resolve_next: the naptr_lookup is still to be issued
NaptrNeedsLookup(n) == VecState(n.resolvable_srv_records) = "Unset"

\* the SRV child of one surviving entry: from the pre-fetched record when
\* additional_srvs has its SRV domain, else one that will query
NaptrEntryChild(rec, srv_domain) ==
    LET has_additional_srvs == DOMAIN rec.additional_srvs # {}
        srv_record == get_additional_srv(rec, srv_domain)
    IN IF has_additional_srvs /\ srv_record.tag = "Some"
       THEN SrvFromSrvRecord(srv_record.val)
       ELSE SrvNew(srv_domain)

\* a variant that builds the children in the reverse of the visiting order
NaptrResolveDomainReversed(n, reply) ==
    IF reply.tag = "None"
    THEN [n EXCEPT !.resolvable_srv_records = VecEmpty]
    ELSE LET rec == reply.val
             Keep(e) ==
                 /\ NaptrServicesTransport(e.services).tag = "Some"
                 /\ NaptrServicesTransport(e.services).val \in Range(n.available_transports)
                 /\ e.flags = "S"
                 /\ NaptrEntryToSrvDomain(e).tag = "Some"
             kept == Reverse(SelectSeq(NaptrRecordIter(rec), Keep))
         IN [n EXCEPT !.resolvable_srv_records = VecNonEmpty(
                 [i \in 1..Len(kept) |->
                     NaptrEntryChild(rec, NaptrEntryToSrvDomain(kept[i]).val)])]

\* a variant that does not look at the flags of an entry
NaptrResolveDomainAnyFlag(n, reply) ==
    IF reply.tag = "None"
    THEN [n EXCEPT !.resolvable_srv_records = VecEmpty]
    ELSE LET rec == reply.val
             Keep(e) ==
                 /\ NaptrServicesTransport(e.services).tag = "Some"
                 /\ NaptrServicesTransport(e.services).val \in Range(n.available_transports)
                 /\ NaptrEntryToSrvDomain(e).tag = "Some"
             kept == SelectSeq(NaptrRecordIter(rec), Keep)
         IN [n EXCEPT !.resolvable_srv_records = VecNonEmpty(
                 [i \in 1..Len(kept) |->
                     NaptrEntryChild(rec, NaptrEntryToSrvDomain(kept[i]).val)])]

\* ResolvableNaptrRecord::resolve_domain, from the answer of naptr_lookup on
NaptrResolveDomain(n, reply) ==
    IF reply.tag = "None"
    THEN [n EXCEPT !.resolvable_srv_records = VecEmpty]
    ELSE LET rec == reply.val
             HasTransport(e) ==
                 /\ NaptrServicesTransport(e.services).tag = "Some"
                 /\ NaptrServicesTransport(e.services).val \in Range(n.available_transports)
             HasFlagS(e) == e.flags = "S"
             Converts(e) == NaptrEntryToSrvDomain(e).tag = "Some"
             kept == SelectSeq(SelectSeq(SelectSeq(NaptrRecordIter(rec), HasTransport),
                                         HasFlagS), Converts)
         IN [n EXCEPT !.resolvable_srv_records = VecNonEmpty(
                 [i \in 1..Len(kept) |->
                     NaptrEntryChild(rec, NaptrEntryToSrvDomain(kept[i]).val)])]

\* ResolvableNaptrRecord::resolve_next
NaptrResolveNext(n) ==
    IF NaptrNeedsLookup(n)
    THEN [self |-> n, res |-> Need([kind |-> "naptr", name |-> n.domain])]
    ELSE LET r == VecResolveNext(n.resolvable_srv_records,
                      [i \in 1..Len(n.resolvable_srv_records.items) |->
                          SrvResolveNext(n.resolvable_srv_records.items[i])])
         IN [self |-> [n EXCEPT !.resolvable_srv_records = r.self], res |-> r.res]

\* the answer goes to the naptr_lookup of this resolvable when that is the query
\* outstanding, else to the SRV child that is suspended
NaptrDeliver(n, reply) ==
    IF NaptrNeedsLookup(n)
    THEN NaptrResolveDomain(n, reply)
    ELSE [n EXCEPT !.resolvable_srv_records =
              VecDeliver(n.resolvable_srv_records,
                         SrvDeliver(n.resolvable_srv_records.items[1], reply))]

----------------------------------------------------------------------------
(* JustDomainLookup: the just-domain fallback state machine *)

\* what JustDomainLookup::new reads from a Context
Context(secure, host, available_protocols, available_transports) ==
    [secure |-> secure, host |-> host, available_protocols |-> available_protocols,
     available_transports |-> available_transports]

\* a variant in which the machine halts in a state that is not Done
JdlHalted == [phase |-> "Halted"]

\* JustDomainLookupState::Done
JdlDone == [phase |-> "Done"]

\* the TryingSrvFallbacks state built when NAPTR gave nothing: one SRV
\* resolvable per available protocol, and the A/AAAA fallback kept for later
JdlSrvFallbacks(fallback_config) ==
    [phase |-> "TryingSrvFallbacks",
     srv_lookups |->
         [i \in 1..Len(fallback_config.available_protocols) |->
             SrvNew(SrvDomain(fallback_config.secure,
                              Protocol(fallback_config.available_protocols[i]),
                              fallback_config.domain))],
     current_index |-> 0,
     any_produced_results |-> FALSE,
     addr_fallback |->
         AddrNew(fallback_config.domain,
                 DefaultPort(fallback_config.default_transport),
                 fallback_config.default_transport)]

\* a variant that starts in the SRV fallback phase, skipping NAPTR
JdlNewSrvFirst(ctx) ==
    JdlSrvFallbacks([domain |-> ctx.host, available_protocols |-> ctx.available_protocols,
                     secure |-> ctx.secure,
                     default_transport |-> DefaultTransport(ctx.secure)])

\* JustDomainLookup::new
JdlNew(ctx) ==
    [phase |-> "TryingNaptr",
     naptr |-> NaptrNew(ctx.host, ctx.available_transports),
     fallback_config |->
         [domain |-> ctx.host, available_protocols |-> ctx.available_protocols,
          secure |-> ctx.secure, default_transport |-> DefaultTransport(ctx.secure)]]

\* a variant of the test below that never ends the lookup after NAPTR
NaptrNeverSucceeded(before, state_after) == FALSE

\* a variant that ends the lookup only when the NAPTR resolvable was initialized
\* and found empty by the same call
NaptrEmptyAtFirstCall(before, state_after) ==
    before = "Unset" /\ state_after = "Empty"

\* the test that ends the lookup when the NAPTR resolvable returns None: NAPTR
\* was processed (not Unset before or after the call) and is now Empty
NaptrSucceededAndExhausted(before, state_after) ==
    LET naptr_succeeded == before # "Unset" \/ state_after # "Unset"
    IN naptr_succeeded /\ state_after = "Empty"

\* a variant that reports the NAPTR resolvable's state in every phase but Done,
\* and Unset once the machine is Done
JdlStateDoneUnset(j) ==
    IF j.phase = "TryingNaptr" THEN NaptrState(j.naptr) ELSE "Unset"

\* JustDomainLookup::state
JdlState(j) ==
    CASE j.phase = "TryingNaptr" -> NaptrState(j.naptr)
      [] j.phase = "TryingSrvFallbacks" ->
            IF j.current_index < Len(j.srv_lookups)
            THEN SrvState(j.srv_lookups[j.current_index + 1]) ELSE "Empty"
      [] j.phase = "TryingAddrFallback" -> AddrState(j.addr)
      [] OTHER -> "Empty"

\* JustDomainLookup::resolve_next: the loop over the phases; before is the
\* state of the NAPTR resolvable taken before it was driven
RECURSIVE JdlResolveNext(_, _)
JdlResolveNext(j, before) ==
    CASE j.phase = "TryingNaptr" ->
            LET r == NaptrResolveNext(j.naptr)
                state_after == NaptrState(r.self)
            IN IF r.res.tag # "None"
               THEN [self |-> [j EXCEPT !.naptr = r.self], res |-> r.res]
               ELSE IF NaptrSucceededAndExhausted(before, state_after)
                    THEN [self |-> JdlDone, res |-> None]
                    ELSE JdlResolveNext(JdlSrvFallbacks(j.fallback_config), before)
      [] j.phase = "TryingSrvFallbacks" ->
            IF j.current_index < Len(j.srv_lookups)
            THEN LET r == SrvResolveNext(j.srv_lookups[j.current_index + 1])
                     driven == [j EXCEPT !.srv_lookups[j.current_index + 1] = r.self]
                 IN CASE r.res.tag = "Some" ->
                            [self |-> [driven EXCEPT !.any_produced_results = TRUE],
                             res  |-> r.res]
                      [] r.res.tag = "Need" -> [self |-> driven, res |-> r.res]
                      [] OTHER ->
                            JdlResolveNext(
                                [driven EXCEPT !.current_index = j.current_index + 1],
                                before)
            ELSE IF j.any_produced_results
                 THEN [self |-> JdlDone, res |-> None]
                 ELSE JdlResolveNext(
                          [phase |-> "TryingAddrFallback", addr |-> j.addr_fallback],
                          before)
      [] j.phase = "TryingAddrFallback" ->
            LET r == AddrResolveNext(j.addr)
            IN IF r.res.tag # "None"
               THEN [self |-> [j EXCEPT !.addr = r.self], res |-> r.res]
               ELSE [self |-> JdlDone, res |-> None]
      [] OTHER -> [self |-> j, res |-> None]

\* the answer goes to the resolvable the current phase is driving
JdlDeliver(j, reply) ==
    CASE j.phase = "TryingNaptr" -> [j EXCEPT !.naptr = NaptrDeliver(j.naptr, reply)]
      [] j.phase = "TryingSrvFallbacks" ->
            [j EXCEPT !.srv_lookups[j.current_index + 1] =
                SrvDeliver(j.srv_lookups[j.current_index + 1], reply)]
      [] j.phase = "TryingAddrFallback" -> [j EXCEPT !.addr = AddrDeliver(j.addr, reply)]
      [] OTHER -> j

----------------------------------------------------------------------------
(* The resolvable under test, and the steps that drive it *)

RootResolveNext(r, before) ==
    CASE r.kind = "ip"    -> IpResolveNext(r.node)
      [] r.kind = "addr"  -> AddrResolveNext(r.node)
      [] r.kind = "srv"   -> SrvResolveNext(r.node)
      [] r.kind = "naptr" -> NaptrResolveNext(r.node)
      [] OTHER            -> JdlResolveNext(r.node, before)

RootDeliver(r, reply) ==
    CASE r.kind = "addr"  -> AddrDeliver(r.node, reply)
      [] r.kind = "srv"   -> SrvDeliver(r.node, reply)
      [] r.kind = "naptr" -> NaptrDeliver(r.node, reply)
      [] r.kind = "jdl"   -> JdlDeliver(r.node, reply)
      [] OTHER            -> r.node

RootState(r) ==
    CASE r.kind = "ip"    -> IpState(r.node)
      [] r.kind = "addr"  -> AddrState(r.node)
      [] r.kind = "srv"   -> SrvState(r.node)
      [] r.kind = "naptr" -> NaptrState(r.node)
      [] OTHER            -> JdlState(r.node)

\* the phase a query is issued in: the phase of the just-domain machine, or the
\* kind of the resolvable when it is driven on its own
PhaseOf(kind, node) == IF kind = "jdl" THEN node.phase ELSE kind

\* the contexts a just-domain lookup is built from
Contexts ==
    {Context(FALSE, BareDomain, <<"Udp", "Tcp">>, <<"Udp", "Tcp">>),
     Context(TRUE, BareDomain, <<"Tls">>, <<"Tls">>)}

SrvDomains == {SrvDomain(FALSE, "Tcp", BareDomain), SrvDomain(TRUE, "Tcp", BareDomain)}

Roots ==
    {[kind |-> "ip", node |-> IpNew(1, 5060, "Udp"), ctx |-> None],
     [kind |-> "ip", node |-> IpNewWithTtl(1, 5061, "Tls", 600), ctx |-> None],
     [kind |-> "addr", node |-> AddrNew(BareDomain, 5060, "Udp"), ctx |-> None],
     [kind |-> "naptr", node |-> NaptrNew(BareDomain, <<"Tcp", "Tls">>), ctx |-> None]}
    \cup {[kind |-> "srv", node |-> SrvNew(sd), ctx |-> None] : sd \in SrvDomains}
    \cup {[kind |-> "srv", node |-> SrvFromSrvRecord(rec), ctx |-> None] :
              rec \in SrvRecords(SrvDomain(FALSE, "Tcp", BareDomain))}
    \cup {[kind |-> "jdl", node |-> JdlNew(ctx), ctx |-> ctx] : ctx \in Contexts}

Init ==
    /\ root \in Roots
    /\ pc = "idle"
    /\ state_before = "Unset"
    /\ inflight = <<>>
    /\ calls = <<>>
    /\ replies = <<>>
    /\ out = <<>>
    /\ events = <<>>
    /\ zone = None
    /\ twin = None

NoneCount == Cardinality({i \in 1..Len(out) : out[i].tag = "None"})

\* the records the DNS client has answered with so far
Answered == Cardinality({i \in 1..Len(replies) : replies[i].tag \in {"Some", "Ok"}})

\* an SRV record a recursive client can carry in the ADDITIONAL section of a
\* NAPTR answer, with A/AAAA glue for the given hosts
GlueSrvRecord(sd, hosts) ==
    SrvRecord(<<SrvEntryOf(1), SrvEntryOf(2)>>, sd, CHOOSE ttl \in SrvTtls : TRUE,
              [h \in hosts |-> CHOOSE g \in GlueRecords(h) : TRUE])

NaptrSrvDomains(es) ==
    {NaptrEntryToSrvDomain(es[i]).val :
        i \in {k \in 1..Len(es) : NaptrEntryToSrvDomain(es[k]).tag = "Some"}}

\* the additional_srvs a NAPTR answer can carry for its entries: none, an SRV
\* record for the first entry only or for every entry, each with glue for one
\* of its two hosts, or SRV records for every entry with glue for every host
AdditionalSrvs(es) ==
    LET all   == NaptrSrvDomains(es)
        first == IF es = <<>> THEN {} ELSE all \cap {NaptrEntryToSrvDomain(es[1]).val}
    IN {[sd \in D |-> GlueSrvRecord(sd, {"t1"})] : D \in {{}, first, all}}
       \cup {[sd \in all |-> GlueSrvRecord(sd, {"t1", "t2"})]}

\* the answers naptr_lookup can give: None on failure or absence, else a record
NaptrReplies(domain) ==
    {None} \cup
    IF Answered >= MaxAnswers THEN {}
    ELSE UNION {{Some(NaptrRecord(es, domain, ttl, srvs)) :
                    ttl \in NaptrTtls, srvs \in AdditionalSrvs(es)} :
                es \in DistinctSeqs(NaptrEntries, MaxNaptrEntries)}

\* the answers srv_lookup can give
SrvReplies(srv_domain) ==
    {None} \cup
    IF Answered >= MaxAnswers THEN {} ELSE {Some(rec) : rec \in SrvRecords(srv_domain)}

\* the answers ip_lookup can give: Err, or Ok with the addresses in client order
IpReplies(domain) ==
    {[tag |-> "Err"]} \cup
    IF Answered >= MaxAnswers THEN {}
    ELSE {[tag |-> "Ok", val |-> AddrRecord(domain, ips, ttl)] :
             ips \in AddrLists, ttl \in AddrTtls}

\* the call ran to r: it either suspends at a DNS query, which is issued,
\* or returns
Advance(r, outstanding) ==
    /\ root' = [root EXCEPT !.node = r.self]
    /\ IF r.res.tag = "Need"
       THEN /\ pc' = "await"
            /\ inflight' = Append(outstanding, r.res.q)
            /\ calls' = Append(calls, [kind |-> r.res.q.kind, name |-> r.res.q.name,
                                       phase |-> PhaseOf(root.kind, r.self)])
            /\ out' = out
       ELSE /\ pc' = "idle"
            /\ inflight' = outstanding
            /\ calls' = calls
            /\ out' = Append(out, [tag |-> r.res.tag,
                                   val |-> IF r.res.tag = "Some" THEN r.res.val ELSE None,
                                   phase |-> PhaseOf(root.kind, r.self)])

\* the caller calls resolve_next
ResolveNext ==
    /\ pc = "idle"
    /\ NoneCount < MaxNoneCalls
    /\ LET before == IF root.kind = "jdl" /\ root.node.phase = "TryingNaptr"
                     THEN NaptrState(root.node.naptr) ELSE state_before
       IN /\ state_before' = before
          /\ Advance(RootResolveNext(root, before), inflight)
    /\ replies' = replies
    /\ UNCHANGED <<zone, twin, events>>

\* the answer to the outstanding query arrives and the suspended call goes on
Resume(reply) ==
    /\ replies' = Append(replies, reply)
    /\ Advance(RootResolveNext([root EXCEPT !.node = RootDeliver(root, reply)],
                               state_before),
               Tail(inflight))
    /\ UNCHANGED <<state_before, zone, twin, events>>

NaptrReply ==
    /\ pc = "await"
    /\ Head(inflight).kind = "naptr"
    /\ \E reply \in NaptrReplies(Head(inflight).name) : Resume(reply)

SrvReply ==
    /\ pc = "await"
    /\ Head(inflight).kind = "srv"
    /\ \E reply \in SrvReplies(Head(inflight).name) : Resume(reply)

IpReply ==
    /\ pc = "await"
    /\ Head(inflight).kind = "ip"
    /\ \E reply \in IpReplies(Head(inflight).name) : Resume(reply)

Next == ResolveNext \/ NaptrReply \/ SrvReply \/ IpReply

Spec == Init /\ [][Next]_vars

----------------------------------------------------------------------------
(* The same DNS data served by a client that carries glue and by one that does
   not *)

ZoneHosts == {"t1", "t2"}

\* the DNS data: the NAPTR entries of the domain (None when absent), the entries
\* every SRV domain of the NAPTR record has, the address list of each host
\* (None when its lookup fails), and the glue the recursive client adds: SRV
\* records in the NAPTR answer or not, and address records for glue_hosts
Zones(kind) ==
    {[naptr |-> n, srv |-> es, ip |-> ips, glue_srvs |-> gs, glue_hosts |-> gh] :
        n \in IF kind = "srv" THEN {None}
              ELSE {Some(x) : x \in DistinctSeqs(NaptrEntries, MaxNaptrEntries)},
        es \in SrvEntryLists,
        ips \in [ZoneHosts -> {None} \cup {Some(a) : a \in AddrLists}],
        gs \in IF kind = "srv" THEN {FALSE} ELSE BOOLEAN,
        gh \in {{}, {"t1"}, ZoneHosts}}

\* the AddrRecord ip_lookup returns for a host of the zone
ZoneAddrRecord(z, host) ==
    AddrRecord(host, z.ip[host].val, CHOOSE ttl \in AddrTtls : TRUE)

\* the SrvRecord srv_lookup returns: with glue, additional_hosts holds the
\* record ip_lookup would return for each target the client has glue for
ZoneSrvRecord(z, sd, glued) ==
    LET hosts == IF glued
                 THEN {h \in SrvTargets(z.srv) \cap z.glue_hosts : z.ip[h].tag = "Some"}
                 ELSE {}
    IN SrvRecord(z.srv, sd, CHOOSE ttl \in SrvTtls : TRUE,
                 [h \in hosts |-> ZoneAddrRecord(z, h)])

\* the answer of a client to query q: the glue-carrying client when glued
ZoneAnswer(z, q, glued) ==
    CASE q.kind = "naptr" ->
            IF z.naptr.tag = "None" THEN None
            ELSE LET sds == IF glued /\ z.glue_srvs
                            THEN NaptrSrvDomains(z.naptr.val) ELSE {}
                 IN Some(NaptrRecord(z.naptr.val, q.name, CHOOSE ttl \in NaptrTtls : TRUE,
                                     [sd \in sds |-> ZoneSrvRecord(z, sd, glued)]))
      [] q.kind = "srv" -> Some(ZoneSrvRecord(z, q.name, glued))
      [] OTHER ->
            IF q.name \in DOMAIN z.ip /\ z.ip[q.name].tag = "Some"
            THEN [tag |-> "Ok", val |-> ZoneAddrRecord(z, q.name)]
            ELSE [tag |-> "Err"]

\* the state of the NAPTR resolvable a just-domain call captures on entry
StateBefore(r) ==
    IF r.kind = "jdl" /\ r.node.phase = "TryingNaptr"
    THEN NaptrState(r.node.naptr) ELSE "Unset"

\* one whole resolve_next call on r against the zone: every query the call
\* suspends at is answered and the call goes on, until it returns
RECURSIVE RunToReturn(_, _, _, _, _)
RECURSIVE RunOn(_, _, _, _, _, _)
RunToReturn(r, before, z, glued, asked) ==
    RunOn(r, RootResolveNext(r, before), before, z, glued, asked)

\* x is what the call has come to: suspended at a query, or returned
RunOn(r, x, before, z, glued, asked) ==
    IF x.res.tag = "Need"
    THEN RunToReturn(
             [r EXCEPT !.node = RootDeliver([r EXCEPT !.node = x.self],
                                            ZoneAnswer(z, x.res.q, glued))],
             before, z, glued, Append(asked, x.res.q))
    ELSE [self |-> x.self, res |-> x.res, asked |-> asked]

\* one whole resolve_next call on r, from its entry
RunCall(r, z, glued) == RunToReturn(r, StateBefore(r), z, glued, <<>>)

\* the call on the resolvable under test has returned a
Returned(a) ==
    /\ root' = [root EXCEPT !.node = a.self]
    /\ out' = Append(out, a.res)
    /\ calls' = calls \o a.asked

\* the call on the resolvable of the client without glue has returned b
TwinReturned(b) ==
    twin' = [node |-> b.self, out |-> Append(twin.out, b.res),
             calls |-> twin.calls \o b.asked]

GlueRoots ==
    {[kind |-> "srv", node |-> SrvNew(SrvDomain(FALSE, "Tcp", BareDomain)), ctx |-> None]}
    \cup {[kind |-> "jdl", node |-> JdlNew(ctx), ctx |-> ctx] :
              ctx \in {c \in Contexts : ~c.secure}}

GlueInit ==
    /\ root \in GlueRoots
    /\ zone \in Zones(root.kind)
    /\ twin = [node |-> root.node, out |-> <<>>, calls |-> <<>>]
    /\ pc = "idle"
    /\ state_before = "Unset"
    /\ inflight = <<>>
    /\ calls = <<>>
    /\ replies = <<>>
    /\ out = <<>>
    /\ events = <<>>

\* the caller calls resolve_next on both resolvables, and each call returns
GlueResolveNext ==
    /\ NoneCount < MaxNoneCalls
    /\ Returned(RunCall(root, zone, TRUE))
    /\ TwinReturned(RunCall([root EXCEPT !.node = twin.node], zone, FALSE))
    /\ UNCHANGED <<pc, state_before, inflight, replies, zone, events>>

GlueNext == GlueResolveNext

GlueSpec == GlueInit /\ [][GlueNext]_vars

----------------------------------------------------------------------------
(* NAPTR answers with entries of every flag, service and replacement *)

NaptrFlags == {"S", "A", "U", "P", "Other"}

NaptrServices == {"SipD2t", "SipD2u", "SipsD2t", "Other"}

\* the replacement names: the three SRV names of the domain, and a name that is
\* no SRV name
Replacements ==
    {<<"_sip", "_udp", BareDomain>>, <<"_sip", "_tcp", BareDomain>>,
     <<"_sips", "_tcp", BareDomain>>, <<BareDomain>>}

\* an S entry for SIP over UDP, visited before the entries of AnyEntries
UdpEntry == NaptrEntry(10, 1, "S", "SipD2u", <<"_sip", "_udp", BareDomain>>)

AnyEntries ==
    {NaptrEntry(20, 5, f, sv, rp) :
        f \in NaptrFlags, sv \in NaptrServices, rp \in Replacements}

\* a zone whose NAPTR record holds one entry of AnyEntries, alone or next to
\* UdpEntry; every SRV domain has one entry, whose host has addresses
FilterZones ==
    {[naptr |-> Some(es), srv |-> <<SrvEntryOf(1)>>,
      ip |-> [h \in ZoneHosts |-> IF h = "t1" THEN Some(a) ELSE None],
      glue_srvs |-> FALSE, glue_hosts |-> {}] :
        es \in UNION {{<<e>>, <<e, UdpEntry>>} : e \in AnyEntries},
        a \in AddrLists \ {<<>>}}

FilterRoots ==
    {[kind |-> "naptr", node |-> NaptrNew(BareDomain, <<"Udp", "Tcp">>), ctx |-> None],
     [kind |-> "naptr", node |-> NaptrNew(BareDomain, <<"Tcp", "Tls">>), ctx |-> None]}
    \cup {[kind |-> "jdl", node |-> JdlNew(ctx), ctx |-> ctx] : ctx \in Contexts}

FilterInit ==
    /\ root \in FilterRoots
    /\ zone \in FilterZones
    /\ twin = None
    /\ pc = "idle"
    /\ state_before = "Unset"
    /\ inflight = <<>>
    /\ calls = <<>>
    /\ replies = <<>>
    /\ out = <<>>
    /\ events = <<>>

\* the caller calls resolve_next, and the call returns
ZoneResolveNext ==
    /\ NoneCount < MaxNoneCalls
    /\ Returned(RunCall(root, zone, FALSE))
    /\ UNCHANGED <<pc, state_before, inflight, replies, zone, twin, events>>

FilterNext == ZoneResolveNext

FilterSpec == FilterInit /\ [][FilterNext]_vars

----------------------------------------------------------------------------
(* Lookup: the root resolvable chosen from a Context *)

\* the port a caller gives explicitly: no default port, and no port of an
\* SRV entry
GivenPort == 5070

\* Context::initialize_from: the Context of a URI with an optional port and an
\* optional transport. The host is an IP literal (is_ip, the address in
\* ip_addr) or a domain (in host)
UriContext(secure, is_ip, ip_addr, host, port, transport) ==
    [secure |-> secure, is_ip |-> is_ip, ip_addr |-> ip_addr, host |-> host,
     port |-> port,
     transport |-> transport,
     available_protocols |-> IF secure THEN <<"Tls">> ELSE <<"Udp", "Tcp">>,
     available_transports |-> IF secure THEN <<"Tls">> ELSE <<"Udp", "Tcp">>]

\* Lookup::from: the decision table, first matching row wins
LookupFrom(ctx) ==
    LET transport == IF ctx.transport.tag = "Some" THEN ctx.transport.val
                     ELSE DefaultTransport(ctx.secure)
    IN CASE ctx.is_ip ->
              [kind |-> "ip", ctx |-> ctx,
               node |-> IpNew(ctx.ip_addr,
                              IF ctx.port.tag = "Some" THEN ctx.port.val
                              ELSE DefaultPort(transport),
                              transport)]
         [] ~ctx.is_ip /\ ctx.port.tag = "Some" ->
              [kind |-> "addr", ctx |-> ctx,
               node |-> AddrNew(ctx.host, ctx.port.val, transport)]
         [] ~ctx.is_ip /\ ctx.port.tag = "None" /\ ctx.transport.tag = "Some" ->
              [kind |-> "srv", ctx |-> ctx,
               node |-> SrvNew(SrvDomain(ctx.secure, ctx.transport.val, ctx.host))]
         [] OTHER ->
              [kind |-> "jdl", ctx |-> ctx, node |-> JdlNew(ctx)]

\* the URIs looked up: an IP literal or the domain, with and without a port
\* and a transport
UriContexts ==
    {UriContext(FALSE, TRUE, 1, "", None, None),
     UriContext(TRUE, TRUE, 1, "", None, None),
     UriContext(TRUE, TRUE, 2, "", Some(GivenPort), Some("Tls")),
     UriContext(FALSE, FALSE, 0, BareDomain, Some(GivenPort), None),
     UriContext(TRUE, FALSE, 0, BareDomain, Some(GivenPort), None),
     UriContext(FALSE, FALSE, 0, BareDomain, Some(GivenPort), Some("Tcp")),
     UriContext(FALSE, FALSE, 0, BareDomain, None, Some("Tcp")),
     UriContext(FALSE, FALSE, 0, BareDomain, None, Some("Udp")),
     UriContext(TRUE, FALSE, 0, BareDomain, None, Some("Tcp")),
     UriContext(FALSE, FALSE, 0, BareDomain, None, None)}

\* a Lookup per URI, and the two IP-literal resolvables built directly
LookupRoots ==
    {LookupFrom(ctx) : ctx \in UriContexts}
    \cup {[kind |-> "ip", node |-> IpNew(1, 5060, "Udp"), ctx |-> None],
          [kind |-> "ip", node |-> IpNewWithTtl(1, 5061, "Tls", 600), ctx |-> None]}

\* the DNS data of the domain: a NAPTR record or none, with the SRV record of its
\* entry as glue or without, the entries every SRV
\* domain has, the addresses of the SRV targets and of the domain itself (None
\* when the lookup fails), and the targets the SRV answer carries glue for
LookupZones ==
    {[naptr |-> n[1], srv |-> es, ip |-> ips, glue_srvs |-> n[2], glue_hosts |-> gh] :
        n \in {<<None, FALSE>>, <<Some(<<UdpEntry>>), FALSE>>, <<Some(<<UdpEntry>>), TRUE>>},
        es \in SrvEntryLists,
        ips \in [ZoneHosts \cup {BareDomain} -> {None} \cup {Some(a) : a \in AddrLists}],
        gh \in {{}, {"t1"}}}

LookupInit ==
    /\ root \in LookupRoots
    /\ zone \in LookupZones
    /\ twin = None
    /\ pc = "idle"
    /\ state_before = "Unset"
    /\ inflight = <<>>
    /\ calls = <<>>
    /\ replies = <<>>
    /\ out = <<>>
    /\ events = <<>>

\* Lookup::resolve_next: the caller calls it, and the call returns
LookupResolveNext ==
    /\ NoneCount < MaxNoneCalls
    /\ Returned(RunCall(root, zone, TRUE))
    /\ UNCHANGED <<pc, state_before, inflight, replies, zone, twin, events>>

LookupNext == LookupResolveNext

LookupSpec == LookupInit /\ [][LookupNext]_vars

----------------------------------------------------------------------------
(* A caller that also calls state() and cancels calls, next to one that only
   drives resolve_next to the end *)

\* a variant of state() that drives the resolvable to find out
RootStateCallDriving(r) ==
    [self |-> RootResolveNext(r, "Unset").self, res |-> RootState(r)]

\* a call to state() on resolvable r: what it returns, and the resolvable
\* after it (state takes &self)
RootStateCall(r) == [self |-> r.node, res |-> RootState(r)]

\* one resolve_next call on r that is dropped at its (k+1)-th await, the first k
\* queries having been answered: res is Cancelled and self the resolvable as
\* the dropped call left it; or the result of the call when it returns before
RECURSIVE RunUntil(_, _, _, _, _, _)
RECURSIVE RunUntilOn(_, _, _, _, _, _, _)
RunUntil(r, before, z, glued, asked, k) ==
    RunUntilOn(r, RootResolveNext(r, before), before, z, glued, asked, k)

RunUntilOn(r, x, before, z, glued, asked, k) ==
    IF x.res.tag # "Need"
    THEN [self |-> x.self, res |-> x.res, asked |-> asked]
    ELSE IF k = 0
         THEN [self |-> x.self, res |-> [tag |-> "Cancelled"],
               asked |-> Append(asked, x.res.q)]
         ELSE RunUntil(
                  [r EXCEPT !.node = RootDeliver([r EXCEPT !.node = x.self],
                                                 ZoneAnswer(z, x.res.q, glued))],
                  before, z, glued, Append(asked, x.res.q), k - 1)

\* the DNS data: a NAPTR record or none, the entries of every SRV domain, two
\* addresses or a failure for each host, and glue for host t1 or for none
DriveZones ==
    {[naptr |-> n, srv |-> es, ip |-> ips, glue_srvs |-> FALSE, glue_hosts |-> gh] :
        n \in {None, Some(<<UdpEntry>>)},
        es \in SrvEntryLists,
        ips \in [ZoneHosts \cup {BareDomain} -> {None, Some(<<2, 1>>)}],
        gh \in {{}, {"t1"}}}

\* Lookups of each kind: IP literal, A/AAAA, SRV, just-domain
DriveRoots ==
    {LookupFrom(ctx) :
        ctx \in {UriContext(FALSE, TRUE, 1, "", None, None),
                 UriContext(FALSE, FALSE, 0, BareDomain, Some(GivenPort), None),
                 UriContext(TRUE, FALSE, 0, BareDomain, None, Some("Tcp")),
                 UriContext(FALSE, FALSE, 0, BareDomain, None, None)}}

DriveInit ==
    /\ root \in DriveRoots
    /\ zone \in DriveZones
    /\ twin = [node |-> root.node, out |-> <<>>, calls |-> <<>>]
    /\ pc = "idle"
    /\ state_before = "Unset"
    /\ inflight = <<>>
    /\ calls = <<>>
    /\ replies = <<>>
    /\ out = <<>>
    /\ events = <<>>

\* both callers call resolve_next, and each call returns
DriveResolveNext ==
    /\ NoneCount < MaxNoneCalls
    /\ Returned(RunCall(root, zone, TRUE))
    /\ TwinReturned(RunCall([root EXCEPT !.node = twin.node], zone, TRUE))
    /\ UNCHANGED <<pc, state_before, inflight, replies, zone, events>>

\* the state() call of the first caller has returned s
StateReturned(s) ==
    /\ root' = [root EXCEPT !.node = s.self]
    /\ events' = Append(events, [op |-> "state", res |-> s.res,
                                 phase |-> PhaseOf(root.kind, root.node)])

\* the first caller calls state() between two resolve_next calls
CallState ==
    /\ Len(events) < MaxEvents
    /\ NoneCount < MaxNoneCalls
    /\ StateReturned(RootStateCall(root))
    /\ UNCHANGED <<pc, state_before, inflight, calls, replies, out, zone, twin>>

\* the resolve_next call of the first caller was dropped at an await
Dropped(a) ==
    /\ a.res.tag = "Cancelled"
    /\ root' = [root EXCEPT !.node = a.self]
    /\ calls' = calls \o a.asked
    /\ events' = Append(events, [op |-> "cancel", at |-> a.asked[Len(a.asked)].kind,
                                 name |-> a.asked[Len(a.asked)].name,
                                 phase |-> PhaseOf(root.kind, root.node)])

\* the first caller calls resolve_next and its task is cancelled while the call
\* is suspended at a DNS lookup, the (k+1)-th of the call
CancelledCall ==
    /\ Len(events) < MaxEvents
    /\ NoneCount < MaxNoneCalls
    /\ \E k \in 0..2 :
          Dropped(RunUntil(root, StateBefore(root), zone, TRUE, <<>>, k))
    /\ UNCHANGED <<pc, state_before, inflight, replies, out, zone, twin>>

DriveNext == DriveResolveNext \/ CallState \/ CancelledCall

DriveSpec == DriveInit /\ [][DriveNext]_vars

----------------------------------------------------------------------------
(* SrvRecord::sorted on records of every priority and weight *)

\* priorities and weights of SRV entries as a DNS answer can carry them (any
\* u16): small ones, a priority above 10000 and a weight near u16::MAX
SortPriorities == {10, 20, 10001}

SortWeights == {5, 50, 100, 60000}

\* a record handed to sorted(): entry i has priority ps[i], weight ws[i] and
\* port 5060 + i, so that entries of equal priority and weight are told apart
SortRecord(k, ps, ws) ==
    SrvRecord([i \in 1..k |->
                  [priority |-> ps[i], weight |-> ws[i], port |-> 5060 + i,
                   target |-> "t1"]],
              SrvDomain(FALSE, "Tcp", BareDomain), CHOOSE ttl \in SrvTtls : TRUE, <<>>)

\* the builds of the crate: overflow panics with overflow checks on (debug), and
\* wraps with them off (release)
Builds == {"debug", "release"}

Panic == [tag |-> "Panic"]

SortInit ==
    /\ \E k \in 0..MaxSortEntries :
          \E ps \in [1..k -> SortPriorities], ws \in [1..k -> SortWeights] :
              root = [kind |-> "record", node |-> SortRecord(k, ps, ws), ctx |-> None]
    /\ zone = None
    /\ twin = None
    /\ pc = "idle"
    /\ state_before = "Unset"
    /\ inflight = <<>>
    /\ calls = <<>>
    /\ replies = <<>>
    /\ out = <<>>
    /\ events = <<>>

\* the caller calls sorted() on the record, in one of the builds; sort_by_key
\* computes no key for a slice of fewer than two entries
Sorted ==
    /\ out = <<>>
    /\ \E build \in Builds :
          out' = <<IF /\ build = "debug"
                      /\ Len(root.node.entries) >= 2
                      /\ \E i \in 1..Len(root.node.entries) :
                            total_weight_overflows(root.node.entries[i])
                   THEN Panic
                   ELSE Some(sorted(root.node))>>
    /\ UNCHANGED <<root, pc, state_before, inflight, calls, replies, zone, twin, events>>

SortNext == Sorted

SortSpec == SortInit /\ [][SortNext]_vars

----------------------------------------------------------------------------
(* Properties *)

IsJdl == root.kind = "jdl"

\* the answer the naptr_lookup of the run got, if it has come
NaptrAnswered == Len(calls) >= 1 /\ calls[1].kind = "naptr" /\ Len(replies) >= 1

Yields == {i \in 1..Len(out) : out[i].tag = "Some"}

\* C1: once resolve_next has returned None, every later call returns None too
C1_ExhaustionIsTerminal ==
    \A i \in 1..Len(out) : \A j \in i..Len(out) :
        out[i].tag = "None" => out[j].tag = "None"

\* a just-domain lookup that yielded, returned None and was called again
C1_Witness ==
    /\ IsJdl
    /\ Len(out) >= 3
    /\ out[1].tag = "Some"
    /\ out[Len(out) - 1].tag = "None"
    /\ out[Len(out)].tag = "None"

\* C2: when the NAPTR lookup returns None, the just-domain machine goes on to
\* the SRV fallback and issues srv_lookup for the supported transports
C2_NaptrNoneFallsBackToSrv ==
    (IsJdl /\ NaptrAnswered /\ replies[1].tag = "None")
        => \E i \in 1..Len(calls) :
               calls[i].kind = "srv" /\ calls[i].phase = "TryingSrvFallbacks"

\* C3: when NAPTR and every SRV fallback return None, the machine issues
\* ip_lookup on the bare domain before it returns None
C3_FullFallbackToAddr ==
    (/\ IsJdl
     /\ \E i \in 1..Len(out) : out[i].tag = "None"
     /\ \A i \in 1..Len(replies) : replies[i].tag = "None")
        => \E i \in 1..Len(calls) :
               /\ calls[i].kind = "ip"
               /\ calls[i].name = BareDomain
               /\ calls[i].phase = "TryingAddrFallback"

\* C4: once the NAPTR resolvable has yielded a Target, no fallback srv_lookup
\* and no bare-domain ip_lookup is ever issued
C4_NoRedundantSrvFallback ==
    (IsJdl /\ \E i \in Yields : out[i].phase = "TryingNaptr")
        => \A i \in 1..Len(calls) :
               calls[i].phase \notin {"TryingSrvFallbacks", "TryingAddrFallback"}

\* the NAPTR chain yielded, was exhausted, and resolve_next was called again
C4_Witness ==
    /\ IsJdl
    /\ Len(out) >= 3
    /\ out[1].tag = "Some" /\ out[1].phase = "TryingNaptr"
    /\ out[Len(out) - 1].tag = "None"
    /\ out[Len(out)].tag = "None"
    /\ Len(calls) >= 2

\* C6: the machine reaches the A/AAAA fallback exactly when NAPTR gave nothing
\* and every SRV fallback returned None without yielding
C6_AddrFallbackIff ==
    (IsJdl /\ root.node.phase = "Done")
        => ((\E i \in 1..Len(calls) : calls[i].phase = "TryingAddrFallback")
            <=> (\A i \in Yields :
                    out[i].phase \notin {"TryingNaptr", "TryingSrvFallbacks"}))

\* the place of a phase in the order NAPTR, SRV fallbacks, A/AAAA fallback, Done
PhaseRank(phase) ==
    CASE phase = "TryingNaptr"        -> 1
      [] phase = "TryingSrvFallbacks" -> 2
      [] phase = "TryingAddrFallback" -> 3
      [] phase = "Done"               -> 4
      [] OTHER                        -> 0

\* C7: the naptr_lookup comes first, the queries are issued in the order of the
\* phases, the phase of the machine never moves backwards, and at most one DNS
\* query is outstanding at any time
C7_PhaseOrdering ==
    /\ [][IsJdl => PhaseRank(root.node.phase') >= PhaseRank(root.node.phase)]_vars
    /\ [](IsJdl =>
            /\ Len(inflight) <= 1
            /\ (calls # <<>> => calls[1].kind = "naptr" /\ calls[1].phase = "TryingNaptr")
            /\ \A i \in 1..Len(calls) : \A k \in i..Len(calls) :
                   PhaseRank(calls[i].phase) <= PhaseRank(calls[k].phase))

\* the machine went from TryingNaptr to Done after several queries
C7_Witness ==
    /\ IsJdl
    /\ root.node.phase = "Done"
    /\ Len(calls) >= 3
    /\ \E i \in Yields : TRUE

\* the SRV entry a Target was derived from (the port names the entry)
EntryOfTarget(t) == SrvEntryOf(t.port - 5060)

\* C8: an SRV resolvable yields the Targets of its entries in descending order
\* of total weight
C8_SrvYieldOrder ==
    root.kind = "srv"
        => \A i \in Yields : \A k \in Yields :
               i < k => total_weight(EntryOfTarget(out[i].val))
                            >= total_weight(EntryOfTarget(out[k].val))

\* the visiting key of the NAPTR entry whose replacement names the SRV domain of
\* a transport
NaptrKeyOf(rec, transport) ==
    LET i == CHOOSE k \in 1..Len(rec.entries) :
                 /\ NaptrEntryToSrvDomain(rec.entries[k]).tag = "Some"
                 /\ SrvDomainTransport(NaptrEntryToSrvDomain(rec.entries[k]).val)
                        = transport
    IN NaptrOrderKey(rec.entries[i])

FullGlue(rec) ==
    /\ rec.entries # <<>>
    /\ \A sd \in NaptrSrvDomains(rec.entries) :
           /\ sd \in DOMAIN rec.additional_srvs
           /\ SrvTargets(rec.additional_srvs[sd].entries)
                  \subseteq DOMAIN rec.additional_srvs[sd].additional_hosts

\* C10: with complete glue in the NAPTR answer, the naptr_lookup is the only
\* DNS call the lookup ever issues
C10_GlueBypassesQueries ==
    (/\ root.kind \in {"naptr", "jdl"}
     /\ NaptrAnswered /\ replies[1].tag = "Some"
     /\ FullGlue(replies[1].val))
        => Len(calls) = 1

\* a just-domain lookup drained to None from glue alone
C10_Witness ==
    /\ IsJdl
    /\ NaptrAnswered /\ replies[1].tag = "Some"
    /\ FullGlue(replies[1].val)
    /\ Len(out) >= 4
    /\ out[1].tag = "Some"
    /\ out[Len(out)].tag = "None"

\* C11: served from the same DNS data, the client that carries glue and the
\* client that carries none make the resolvable return the same Targets in the
\* same order, call for call
C11_GlueIsAdvisory == twin # None => out = twin.out

\* glue saved queries and Targets were yielded
C11_Witness ==
    /\ twin # None
    /\ Len(calls) < Len(twin.calls)
    /\ Len(out) >= 3
    /\ out[1].tag = "Some"
    /\ out[2].tag = "Some"
    /\ out[Len(out)].tag = "None"

\* the SRV records the client has delivered: the answers of srv_lookup and the
\* additional_srvs of the NAPTR answers
SrvRecordsSeen ==
    UNION {IF replies[j].tag # "Some" THEN {}
           ELSE IF "additional_hosts" \in DOMAIN replies[j].val THEN {replies[j].val}
           ELSE {replies[j].val.additional_srvs[sd] :
                    sd \in DOMAIN replies[j].val.additional_srvs} :
           j \in 1..Len(replies)}

\* the host a Target was resolved from
HostOfTarget(t) ==
    IF root.kind = "addr" THEN root.node.domain ELSE EntryOfTarget(t).target

\* the glue AddrRecords for the host of Target t in the SRV record of its transport
GlueOfTarget(t) ==
    {r.additional_hosts[HostOfTarget(t)] :
        r \in {x \in SrvRecordsSeen :
                  /\ SrvDomainTransport(x.domain) = t.transport
                  /\ HostOfTarget(t) \in DOMAIN x.additional_hosts}}

\* the AddrRecords ip_lookup returned for the host of Target t
LiveOfTarget(t) ==
    {replies[j].val :
        j \in {k \in 1..Len(replies) :
                  replies[k].tag = "Ok" /\ replies[k].val.domain = HostOfTarget(t)}}

\* C12: a Target of a chain that ends in an ip_lookup carries the ttl of the
\* AddrRecord that lookup returned, a Target built from additional_hosts glue
\* carries the ttl of the glue record; never the ttl of the SRV or NAPTR record
C12_TtlPropagation ==
    root.kind \in {"addr", "srv", "naptr", "jdl"}
        => \A i \in Yields :
               LET t == out[i].val
                   glue == GlueOfTarget(t)
               IN IF glue # {}
                  THEN \E g \in glue :
                           t.ttl = g.ttl /\ t.ip_addr \in Range(g.ip_addrs)
                  ELSE IF \E c \in 1..Len(calls) :
                              calls[c].kind = "ip" /\ calls[c].name = HostOfTarget(t)
                  THEN \E l \in LiveOfTarget(t) :
                           t.ttl = l.ttl /\ t.ip_addr \in Range(l.ip_addrs)
                  ELSE \E g \in GlueRecords(HostOfTarget(t)) :
                           t.ttl = g.ttl /\ t.ip_addr \in Range(g.ip_addrs)

\* one NAPTR chain yielded a Target from glue and a Target from an ip_lookup
C12_Witness ==
    /\ root.kind \in {"naptr", "jdl"}
    /\ \E i \in Yields : GlueOfTarget(out[i].val) # {} /\ out[i].val.ttl \in GlueTtls
    /\ \E i \in Yields : GlueOfTarget(out[i].val) = {} /\ out[i].val.ttl \in AddrTtls

\* C13: a Target with transport Tls comes from a Context with secure = TRUE: a
\* just-domain lookup that is not secure never yields one
C13_TlsImpliesSecure ==
    root.kind = "jdl"
        => \A i \in Yields : out[i].val.transport = "Tls" => root.ctx.secure

\* C14: an IP-literal resolvable, built directly or by a Lookup on an IP-literal
\* URI, returns on its first call the one Target of the given ip, port and
\* transport (5060 and Udp, or 5061 and Tls for sips, when the URI gives none)
\* with ttl 300 unless a ttl was given, returns None on every later call, and
\* issues no DNS query.
C14_IpLiteralPath ==
    root.kind = "ip" =>
        /\ calls = <<>>
        /\ \A i \in 2..Len(out) : out[i] = None
        /\ Len(out) >= 1 =>
              out[1] =
                 IF root.ctx = None
                 THEN IF root.node.port = 5060
                      THEN Some(Target(1, 5060, "Udp", 300))
                      ELSE Some(Target(1, 5061, "Tls", 600))
                 ELSE IF root.ctx.port.tag = "Some"
                      THEN Some(Target(root.ctx.ip_addr, GivenPort, root.ctx.transport.val, 300))
                      ELSE IF root.ctx.secure
                           THEN Some(Target(root.ctx.ip_addr, 5061, "Tls", 300))
                           ELSE Some(Target(root.ctx.ip_addr, 5060, "Udp", 300))

\* a Lookup on a bare sip IP URI has yielded its Target and then None twice
C14_Witness ==
    /\ root.kind = "ip" /\ root.ctx # None
    /\ root.ctx.port = None /\ ~root.ctx.secure
    /\ Len(out) = 3 /\ out[1].tag = "Some" /\ out[3] = None

\* C15: a Lookup on a domain URI with an explicit port issues only ip_lookup on
\* that domain, never naptr_lookup or srv_lookup, and returns one Target per
\* address of the answer, in the answer's order and with the given port, then
\* None (None at once when the lookup fails).
C15_DomainWithPort ==
    (root.ctx # None /\ ~root.ctx.is_ip /\ root.ctx.port.tag = "Some") =>
        LET answer == zone.ip[BareDomain]
            addrs == IF answer.tag = "Some" THEN answer.val ELSE <<>>
            transport == IF root.ctx.transport.tag = "Some"
                         THEN root.ctx.transport.val
                         ELSE DefaultTransport(root.ctx.secure)
        IN /\ \A c \in 1..Len(calls) :
                 calls[c] = [kind |-> "ip", name |-> BareDomain]
           /\ Len(calls) <= 1
           /\ \A i \in 1..Len(out) :
                 out[i] = IF i <= Len(addrs)
                          THEN Some(Target(addrs[i], root.ctx.port.val, transport,
                                           CHOOSE ttl \in AddrTtls : TRUE))
                          ELSE None

\* the Lookup on the domain with a port has returned two Targets and then None,
\* in a zone that has NAPTR and SRV data too
C15_Witness ==
    /\ root.ctx # None /\ ~root.ctx.is_ip /\ root.ctx.port.tag = "Some"
    /\ zone.naptr # None /\ zone.srv # <<>>
    /\ Len(out) = 3 /\ out[1].tag = "Some" /\ out[2].tag = "Some" /\ out[3] = None
    /\ out[1].val.ip_addr # out[2].val.ip_addr

\* C16: a Lookup on a domain with a caller-given transport and no port resolves
\* through one SRV resolvable on SrvDomain(secure, given transport, domain): its
\* first query is the srv_lookup on that SrvDomain, it issues no other
\* srv_lookup and no naptr_lookup, and every Target carries the transport of the
\* SrvDomain (Tls for secure with Tcp, else the given transport).
C16_DomainWithTransport ==
    (root.ctx # None /\ ~root.ctx.is_ip /\ root.ctx.port.tag = "None"
        /\ root.ctx.transport.tag = "Some") =>
        LET sd == SrvDomain(root.ctx.secure, root.ctx.transport.val, BareDomain)
        IN /\ root.kind = "srv"
           /\ \A c \in 1..Len(calls) :
                 /\ calls[c].kind # "naptr"
                 /\ (c = 1) = (calls[c].kind = "srv")
           /\ Len(calls) >= 1 => calls[1].name = sd
           /\ Len(out) >= 1 => Len(calls) >= 1
           /\ \A i \in Yields :
                 out[i].val.transport =
                    IF root.ctx.secure /\ root.ctx.transport.val = "Tcp"
                    THEN "Tls" ELSE root.ctx.transport.val

\* the Lookup on sips with transport Tcp has yielded a Tls Target, in a zone
\* that has a NAPTR record
C16_Witness ==
    /\ root.ctx # None /\ ~root.ctx.is_ip /\ root.ctx.port.tag = "None"
    /\ root.ctx.transport = Some("Tcp") /\ root.ctx.secure
    /\ zone.naptr # None
    /\ \E i \in Yields : out[i].val.transport = "Tls"
    /\ out[Len(out)] = None

\* the lookup runs through the SRV entries of the zone: an SRV resolvable, or a
\* just-domain lookup whose NAPTR record leads to them
ThroughSrv == root.kind = "srv" \/ (root.kind = "jdl" /\ zone.naptr # None)

\* the run is over: the last call returned None
Exhausted == Len(out) >= 1 /\ out[Len(out)] = None

\* C17: resolve_next returns only Some(Target) or None, and a failed ip_lookup
\* for the target of one SRV entry does not stop the others: once the run is
\* over, every address of every entry whose target resolves has been yielded
\* with that entry's port, whatever happened to the entries before it.
C17_FailuresStayLocal ==
    /\ \A i \in 1..Len(out) : out[i].tag \in {"Some", "None"}
    /\ (ThroughSrv /\ Exhausted) =>
          \A j \in 1..Len(zone.srv) :
              LET answer == zone.ip[zone.srv[j].target]
              IN answer.tag = "Some" =>
                    \A k \in 1..Len(answer.val) :
                        \E i \in Yields :
                            /\ out[i].val.ip_addr = answer.val[k]
                            /\ out[i].val.port = zone.srv[j].port

\* the ip_lookup for the first entry's target failed, and the Target of the
\* second entry was yielded after it
C17_Witness ==
    /\ root.kind = "srv" /\ Exhausted
    /\ Len(zone.srv) = 2
    /\ zone.ip[zone.srv[1].target] = None
    /\ \E c \in 1..Len(calls) :
          calls[c].kind = "ip" /\ calls[c].name = zone.srv[1].target
    /\ \E i \in Yields : out[i].val.port = zone.srv[2].port

\* the SrvDomain of the SRV record the lookup consumes: the one the SRV
\* resolvable was built on, or the one the NAPTR entry of the zone names
ConsumedSrvDomain ==
    IF root.kind = "srv" THEN root.node.domain
    ELSE NaptrEntryToSrvDomain(zone.naptr.val[1]).val

\* C18: every Target an SRV resolvable yields comes from an entry e of the
\* SrvRecord it consumed (looked up, or pre-fetched with the NAPTR answer; with
\* glue or without): an address of e's target, with e's port and with the
\* transport of the record's SrvDomain.
C18_PortAndTransportOfEntry ==
    ThroughSrv =>
        \A i \in Yields :
            LET t == out[i].val
                sd == ConsumedSrvDomain
            IN /\ \E j \in 1..Len(zone.srv) :
                     LET answer == zone.ip[zone.srv[j].target]
                     IN /\ t.port = zone.srv[j].port
                        /\ answer.tag = "Some"
                        /\ t.ip_addr \in Range(answer.val)
               /\ t.transport = IF sd.secure /\ sd.protocol = "Tcp" THEN "Tls"
                                ELSE sd.protocol

\* Targets of two entries of a sips record, one from glue and one looked up
C18_Witness ==
    /\ root.kind = "srv" /\ root.node.domain.secure /\ Exhausted
    /\ Len(zone.srv) = 2
    /\ zone.srv[1].target \in zone.glue_hosts
    /\ \E c \in 1..Len(calls) :
          calls[c].kind = "ip" /\ calls[c].name = zone.srv[2].target
    /\ \A c \in 1..Len(calls) :
          calls[c].kind = "ip" => calls[c].name # zone.srv[1].target
    /\ \A j \in 1..2 : \E i \in Yields : out[i].val.port = zone.srv[j].port

\* Targets of a pre-fetched SRV record: the NAPTR answer carried it, and no
\* srv_lookup was issued
C18_WitnessPrefetched ==
    /\ root.kind = "jdl" /\ zone.glue_srvs
    /\ \A c \in 1..Len(calls) : calls[c].kind # "srv"
    /\ Yields # {}

\* the addresses the DNS client has for a host, in the order it delivers them
AddrsOf(host) == IF zone.ip[host].tag = "Some" THEN zone.ip[host].val ELSE <<>>

\* the position of address ip among the addresses of host
PositionIn(host, ip) == CHOOSE n \in 1..Len(AddrsOf(host)) : AddrsOf(host)[n] = ip

\* the index of the SRV entry Target t has its port from
EntryIndex(t) == CHOOSE j \in 1..Len(zone.srv) : zone.srv[j].port = t.port

\* C19: an A/AAAA resolvable yields one Target per address of the answer to its
\* ip_lookup, in the answer's order, and then None; an SRV or NAPTR resolvable
\* yields the addresses of entry i, in the answer's order, before any address
\* of entry i+1, each address once.
C19_AddressOrder ==
    /\ root.kind = "addr" =>
          /\ \A i \in 1..Len(out) :
                IF i <= Len(AddrsOf(BareDomain))
                THEN out[i].tag = "Some" /\ out[i].val.ip_addr = AddrsOf(BareDomain)[i]
                ELSE out[i] = None
    /\ ThroughSrv =>
          /\ \A i, k \in Yields :
                i < k =>
                   LET a == out[i].val
                       b == out[k].val
                   IN \/ EntryIndex(a) < EntryIndex(b)
                      \/ /\ EntryIndex(a) = EntryIndex(b)
                         /\ PositionIn(zone.srv[EntryIndex(a)].target, a.ip_addr)
                               < PositionIn(zone.srv[EntryIndex(b)].target, b.ip_addr)
          /\ Exhausted =>
                \A j \in 1..Len(zone.srv) :
                    Cardinality({i \in Yields : out[i].val.port = zone.srv[j].port})
                        = Len(AddrsOf(zone.srv[j].target))

\* two entries with two addresses each: four Targets, then None
C19_Witness ==
    /\ root.kind = "srv" /\ Exhausted
    /\ Len(zone.srv) = 2
    /\ Len(AddrsOf(zone.srv[1].target)) = 2 /\ Len(AddrsOf(zone.srv[2].target)) = 2
    /\ Cardinality(Yields) = 4
    /\ out[1].val.ip_addr # out[2].val.ip_addr
    /\ out[2].val.port # out[3].val.port

\* the available_transports the NAPTR resolvable of the run was built with
AvailableTransports ==
    IF root.kind = "naptr" THEN root.node.available_transports
    ELSE root.ctx.available_transports

\* the entry qualifies: flags S, a services variant whose transport is an
\* available one, and a replacement that names an SRV domain
Qualifies(e) ==
    /\ e.flags = "S"
    /\ \/ e.services = "SipD2t" /\ "Tcp" \in Range(AvailableTransports)
       \/ e.services = "SipD2u" /\ "Udp" \in Range(AvailableTransports)
       \/ e.services = "SipsD2t" /\ "Tls" \in Range(AvailableTransports)
    /\ Len(e.replacement) = 3

\* the entries of the NAPTR answer that qualify
Qualifying == {i \in 1..Len(zone.naptr.val) : Qualifies(zone.naptr.val[i])}

SrvCalls == {c \in 1..Len(calls) : calls[c].kind = "srv"}

\* C20: the NAPTR resolvable builds an SRV child for an entry exactly when the
\* entry has flags S, a services variant whose transport is in
\* available_transports and a replacement that converts to an SrvDomain: every
\* srv_lookup is on the SrvDomain of a qualifying entry, a run that is over has
\* issued one srv_lookup per qualifying entry, and without a qualifying entry
\* there is no srv_lookup and no Target.
C20_NaptrFiltering ==
    root.kind \in {"naptr", "jdl"} =>
        /\ \A c \in SrvCalls :
              \E i \in Qualifying :
                  calls[c].name = NaptrEntryToSrvDomain(zone.naptr.val[i]).val
        /\ Cardinality(SrvCalls) <= Cardinality(Qualifying)
        /\ Exhausted => Cardinality(SrvCalls) = Cardinality(Qualifying)
        /\ Qualifying = {} => Yields = {}

\* an entry with flags other than S next to a qualifying one: the run is over
\* with one srv_lookup and a Target
C20_Witness ==
    /\ root.kind = "naptr" /\ Exhausted
    /\ Len(zone.naptr.val) = 2
    /\ zone.naptr.val[1].flags = "A"
    /\ zone.naptr.val[1].services = "SipD2u"
    /\ Cardinality(Qualifying) = 1 /\ Cardinality(SrvCalls) = 1
    /\ Yields # {}

\* (10000 - priority) + weight, as a number
Key(e) == (10000 - e.priority) + e.weight

\* C21: sorted() returns the entries of the record, each once, in descending
\* order of (10000 - priority) + weight, entries of equal key in input order.
C21_SortedByTotalWeight ==
    root.kind = "record" =>
        \A r \in 1..Len(out) :
            /\ out[r].tag = "Some"
            /\ LET es == out[r].val.entries
               IN /\ Len(es) = Len(root.node.entries)
                  /\ Range(es) = Range(root.node.entries)
                  /\ \A a, b \in 1..Len(es) :
                        a < b => \/ Key(es[a]) > Key(es[b])
                                 \/ Key(es[a]) = Key(es[b]) /\ es[a].port < es[b].port

OnlyStateCalls == \A e \in 1..Len(events) : events[e].op = "state"

\* C23: a call to state() issues no DNS query and leaves the resolvable as it
\* was, in every phase of a just-domain lookup and on every other resolvable;
\* so the caller that calls state() between its resolve_next calls gets the
\* same results, and issues the same queries, as the caller that never does.
C23_StateIsPure ==
    /\ [][(Len(events') > Len(events) /\ events'[Len(events')].op = "state")
             => (root' = root /\ calls' = calls /\ out' = out)]_vars
    /\ [](OnlyStateCalls =>
             (out = twin.out /\ calls = twin.calls /\ root.node = twin.node))

\* state() was called on a just-domain lookup before its first resolve_next
\* and after a Target, and the lookup went on to its end
C23_Witness ==
    /\ root.kind = "jdl" /\ Exhausted
    /\ Len(events) = 2 /\ OnlyStateCalls
    /\ events[1].res = "Unset" /\ events[2].res = "NonEmpty"
    /\ Cardinality(Yields) >= 2

----------------------------------------------------------------------------
(* The DnsClient implementations: the records they build from the DNS
   responses they receive *)

\* most records of one section of a DNS response
MaxWire == 2

\* u32::MAX, the largest TTL of the wire; the model gives it the largest integer
\* of the model checker, every other TTL keeping its own value
U32Max == 2147483647

\* a resource record of a response: owner name, type, TTL, and the address of
\* an A/AAAA record (0 for the other types); the RDATA of every NAPTR record
\* is UdpEntry, that of every SRV record SrvEntryOf(1)
Wire(name, rtype, ttl, addr) ==
    [name |-> name, rtype |-> rtype, ttl |-> ttl, addr |-> addr]

\* the transaction ID query() gives its message (message.set_id(rand::random()):
\* any u16, every value behaving alike)
QueryId == 1

\* the transaction IDs a datagram received on the socket can carry: that of the
\* query, or another one (a stale or forged response)
ResponseIds == {QueryId, QueryId + 1}

\* what came back for a query: nothing that parses (recv = FALSE: bind, send,
\* timeout or parse failure), or a message with its RCODE and sections; the
\* message carries the transaction ID of the query unless said otherwise
Response(recv, rcode, answers, additionals) ==
    [recv |-> recv, rcode |-> rcode, answers |-> answers, additionals |-> additionals,
     id |-> QueryId]

NoResponse == Response(FALSE, "NoError", <<>>, <<>>)

\* the elements of seq at the indices I, in order
SubSeqAt(seq, I) ==
    [p \in 1..Cardinality(I) |->
        seq[CHOOSE i \in I : Cardinality({j \in I : j <= i}) = p]]

\* the records of the given types, in section order
OfType(recs, types) ==
    SubSeqAt(recs, {i \in 1..Len(recs) : recs[i].rtype \in types})

\* the records of the given owner name, in section order
OfName(recs, name) ==
    SubSeqAt(recs, {i \in 1..Len(recs) : recs[i].name = name})

\* the smallest TTL of the records, 300 when there is none
MinTtlOr300(recs) ==
    IF recs = <<>> THEN 300 ELSE Min({recs[i].ttl : i \in 1..Len(recs)})

\* RecursiveHickoryClient::query without the response-code check
QueryAnyRcode(resp) ==
    IF resp.recv THEN [tag |-> "Ok", val |-> resp] ELSE [tag |-> "Err"]

\* RecursiveHickoryClient::query: the message, unless nothing came back or the
\* response code is not NoError
query(resp) ==
    IF resp.recv /\ resp.rcode = "NoError"
    THEN [tag |-> "Ok", val |-> resp] ELSE [tag |-> "Err"]

\* RecursiveHickoryClient::calculate_min_ttl
calculate_min_ttl(records) == MinTtlOr300(records)

\* RecursiveHickoryClient::parse_additional_hosts: the A/AAAA records of the
\* ADDITIONAL section grouped by owner name, each group with its smallest TTL
parse_additional_hosts(message) ==
    LET addrs == OfType(message.additionals, {"A", "AAAA"})
    IN [d \in {addrs[i].name : i \in 1..Len(addrs)} |->
           LET mine == OfName(addrs, d)
           IN AddrRecord(d, [i \in 1..Len(mine) |-> mine[i].addr], MinTtlOr300(mine))]

\* SrvDomain::try_from(&str): the SRV domain an owner name spells
SrvDomainTryFrom(name) ==
    CASE name = "_sip._udp.example.com"  -> Some(SrvDomain(FALSE, "Udp", BareDomain))
      [] name = "_sips._tcp.example.com" -> Some(SrvDomain(TRUE, "Tcp", BareDomain))
      [] OTHER                           -> None

\* the SrvRecord naptr_lookup builds for the SRV records srvs of one owner
\* name: its ttl is the TTL of the first of them (or_insert_with), its
\* additional_hosts the glue of the targets of its entries
AdditionalSrvRecord(srvs, srv_domain, additional_hosts) ==
    LET entries == [i \in 1..Len(srvs) |-> SrvEntryOf(1)]
    IN SrvRecord(entries, srv_domain, srvs[1].ttl,
                 [t \in SrvTargets(entries) \cap DOMAIN additional_hosts |->
                     additional_hosts[t]])

\* RecursiveHickoryClient::naptr_lookup
naptr_lookup(domain, resp) ==
    LET q == query(resp)
    IN IF q.tag = "Err" THEN None
       ELSE LET response == q.val
                naptrs   == OfType(response.answers, {"NAPTR"})
                entries  == [i \in 1..Len(naptrs) |-> UdpEntry]
                srvs     == OfType(response.additionals, {"SRV"})
                names    == {srvs[i].name : i \in 1..Len(srvs)}
                parsed   == {n \in names : SrvDomainTryFrom(n).tag = "Some"}
                hosts    == parse_additional_hosts(response)
            IN IF entries = <<>> THEN None
               ELSE Some(NaptrRecord(entries, domain,
                        calculate_min_ttl(response.answers),
                        [sd \in {SrvDomainTryFrom(n).val : n \in parsed} |->
                            LET n == CHOOSE m \in parsed : SrvDomainTryFrom(m).val = sd
                            IN AdditionalSrvRecord(OfName(srvs, n), sd, hosts)]))

\* RecursiveHickoryClient::srv_lookup
srv_lookup(srv_domain, resp) ==
    LET q == query(resp)
    IN IF q.tag = "Err" THEN None
       ELSE LET response == q.val
                srvs     == OfType(response.answers, {"SRV"})
                entries  == [i \in 1..Len(srvs) |-> SrvEntryOf(1)]
            IN IF entries = <<>> THEN None
               ELSE Some(SrvRecord(entries, srv_domain,
                                   calculate_min_ttl(response.answers),
                                   parse_additional_hosts(response)))

\* the addresses one query of ip_lookup contributes: those of the answers of
\* the queried type, none when the query failed
AnswerAddrs(q, rtype) ==
    IF q.tag = "Err" THEN <<>>
    ELSE LET recs == OfType(q.val.answers, {rtype})
         IN [i \in 1..Len(recs) |-> recs[i].addr]

\* the TTLs RecursiveHickoryClient::ip_lookup folds into min_ttl for one
\* query: those of the answers of the queried type
AnswerTtls(q, rtype) ==
    IF q.tag = "Err" THEN {}
    ELSE LET recs == OfType(q.val.answers, {rtype})
         IN {recs[i].ttl : i \in 1..Len(recs)}

\* the end of ip_lookup: Err without an address; min_ttl starts at u32::MAX and
\* reads as "no TTL seen" when it is still u32::MAX
IpLookupResult(domain, ip_addrs, ttls) ==
    LET min_ttl == Min(ttls \cup {U32Max})
    IN IF ip_addrs = <<>> THEN [tag |-> "Err"]
       ELSE [tag |-> "Ok",
             val |-> AddrRecord(domain, ip_addrs,
                                IF min_ttl = U32Max THEN 300 ELSE min_ttl)]

\* ip_lookup giving up as soon as the A query fails
IpLookupFailFast(domain, a_resp, aaaa_resp) ==
    IF query(a_resp).tag = "Err" THEN [tag |-> "Err"]
    ELSE IpLookupResult(domain,
            AnswerAddrs(query(a_resp), "A") \o AnswerAddrs(query(aaaa_resp), "AAAA"),
            AnswerTtls(query(a_resp), "A") \cup AnswerTtls(query(aaaa_resp), "AAAA"))

\* RecursiveHickoryClient::ip_lookup: the A query, then the AAAA query
ip_lookup(domain, a_resp, aaaa_resp) ==
    IpLookupResult(domain,
        AnswerAddrs(query(a_resp), "A") \o AnswerAddrs(query(aaaa_resp), "AAAA"),
        AnswerTtls(query(a_resp), "A") \cup AnswerTtls(query(aaaa_resp), "AAAA"))

\* Resolver::lookup as HickoryClient and AsyncHickoryClient use it: the
\* records of the answer, an error when the resolution failed or found none
ResolverLookup(resp) ==
    IF resp.recv /\ resp.rcode = "NoError" /\ resp.answers # <<>>
    THEN [tag |-> "Ok", val |-> resp] ELSE [tag |-> "Err"]

\* the TTLs HickoryClient::ip_lookup folds into min_ttl for one lookup: those
\* of all its records
LookupTtls(q) ==
    IF q.tag = "Err" THEN {} ELSE {q.val.answers[i].ttl : i \in 1..Len(q.val.answers)}

\* HickoryClient::naptr_lookup, AsyncHickoryClient::naptr_lookup
HickoryNaptrLookup(domain, resp) ==
    LET q == ResolverLookup(resp)
    IN IF q.tag = "Err" THEN None
       ELSE LET naptrs == OfType(q.val.answers, {"NAPTR"})
            IN Some(NaptrRecord([i \in 1..Len(naptrs) |-> UdpEntry], domain,
                                MinTtlOr300(q.val.answers), <<>>))

\* HickoryClient::srv_lookup, AsyncHickoryClient::srv_lookup
HickorySrvLookup(srv_domain, resp) ==
    LET q == ResolverLookup(resp)
    IN IF q.tag = "Err" THEN None
       ELSE LET srvs == OfType(q.val.answers, {"SRV"})
            IN Some(SrvRecord([i \in 1..Len(srvs) |-> SrvEntryOf(1)], srv_domain,
                              MinTtlOr300(q.val.answers), <<>>))

\* HickoryClient::ip_lookup, AsyncHickoryClient::ip_lookup
HickoryIpLookup(domain, a_resp, aaaa_resp) ==
    IpLookupResult(domain,
        AnswerAddrs(ResolverLookup(a_resp), "A")
            \o AnswerAddrs(ResolverLookup(aaaa_resp), "AAAA"),
        LookupTtls(ResolverLookup(a_resp)) \cup LookupTtls(ResolverLookup(aaaa_resp)))

\* the response codes of the model
Rcodes == {"NoError", "ServFail"}

WireTtls == {100, 400}

\* the sequences over S of length 0..n
SeqsUpTo(S, n) == UNION {[1..k -> S] : k \in 0..n}

\* the responses to a query: nothing, or a message of either response code
\* with the given sections
Responses(answers, additionals) ==
    {NoResponse} \cup {Response(TRUE, rc, an, ad) :
                         rc \in Rcodes, an \in answers, ad \in additionals}

SrvOwner == "_sip._udp.example.com"

\* the queries of a client
Queries == {"naptr", "srv", "ip"}

\* what can come back for the query of a naptr_lookup or srv_lookup, or for
\* the A query of an ip_lookup
FirstResponses(q) ==
    CASE q = "naptr" ->
            Responses(
                SeqsUpTo({Wire(BareDomain, t, ttl, 0) :
                             t \in {"NAPTR", "CNAME"}, ttl \in WireTtls}, MaxWire),
                SeqsUpTo({Wire(SrvOwner, "SRV", ttl, 0) : ttl \in WireTtls}
                         \cup {Wire(BareDomain, "SRV", 100, 0), Wire("t1", "A", 100, 1)},
                         MaxWire))
      [] q = "srv" ->
            Responses(
                SeqsUpTo({Wire(SrvOwner, t, ttl, 0) :
                             t \in {"SRV", "CNAME"}, ttl \in WireTtls}, MaxWire),
                SeqsUpTo({Wire("t1", "A", ttl, 1) : ttl \in WireTtls}
                         \cup {Wire("t1", "AAAA", 400, 6)}, MaxWire))
      [] OTHER ->
            Responses(
                SeqsUpTo({Wire("t1", "A", 100, 1), Wire("t1", "A", 400, 2),
                          Wire("t1", "A", U32Max, 1), Wire("t1", "CNAME", 100, 0)},
                         MaxWire), {<<>>})

\* what can come back for the AAAA query of an ip_lookup; the other lookups
\* send one query
SecondResponses(q) ==
    IF q = "ip"
    THEN Responses(
             SeqsUpTo({Wire("t1", "AAAA", ttl, 6) : ttl \in WireTtls}
                      \cup {Wire("t1", "CNAME", 400, 0)}, MaxWire), {<<>>})
    ELSE {NoResponse}

Clients == {"RecursiveHickoryClient", "HickoryClient", "AsyncHickoryClient"}

\* a client before its lookup, and the responses its query will get; the socket
\* of the direct UDP client can receive a datagram with another transaction ID
\* (the resolver library of the other clients drops such a datagram itself)
ClientInit ==
    /\ root \in {[kind |-> "client", node |-> c, ctx |-> None] : c \in Clients}
    /\ \E q \in Queries : \E a \in FirstResponses(q), b \in SecondResponses(q) :
          \E id \in IF root.node = "RecursiveHickoryClient" /\ a.recv
                     THEN ResponseIds ELSE {QueryId} :
              zone = [q |-> q, first |-> [a EXCEPT !.id = id], second |-> b]
    /\ pc = "idle"
    /\ state_before = None
    /\ inflight = {}
    /\ calls = <<>>
    /\ replies = <<>>
    /\ out = <<>>
    /\ twin = None
    /\ events = <<>>

\* what a lookup of the client returned
ClientReturned(op, res) ==
    /\ out' = <<[op |-> op, res |-> res]>>
    /\ UNCHANGED <<root, pc, state_before, inflight, calls, replies, zone, twin, events>>

\* DnsClient::naptr_lookup
ClientNaptrLookup ==
    /\ zone.q = "naptr" /\ out = <<>>
    /\ ClientReturned("naptr_lookup",
          IF root.node = "RecursiveHickoryClient"
          THEN naptr_lookup(BareDomain, zone.first)
          ELSE HickoryNaptrLookup(BareDomain, zone.first))

\* DnsClient::srv_lookup
ClientSrvLookup ==
    /\ zone.q = "srv" /\ out = <<>>
    /\ ClientReturned("srv_lookup",
          IF root.node = "RecursiveHickoryClient"
          THEN srv_lookup(SrvDomainTryFrom(SrvOwner).val, zone.first)
          ELSE HickorySrvLookup(SrvDomainTryFrom(SrvOwner).val, zone.first))

\* DnsClient::ip_lookup
ClientIpLookup ==
    /\ zone.q = "ip" /\ out = <<>>
    /\ ClientReturned("ip_lookup",
          IF root.node = "RecursiveHickoryClient"
          THEN ip_lookup("t1", zone.first, zone.second)
          ELSE HickoryIpLookup("t1", zone.first, zone.second))

ClientNext == ClientNaptrLookup \/ ClientSrvLookup \/ ClientIpLookup

ClientSpec == ClientInit /\ [][ClientNext]_vars

\* the response was one a client builds records from
Usable(resp) == resp.recv /\ resp.rcode = "NoError"

\* the additional_hosts of a record carry, for each host, the smallest TTL of
\* the A/AAAA records of that host in the ADDITIONAL section
HostsCarryMinTtl(additional_hosts, additionals) ==
    \A h \in DOMAIN additional_hosts :
        additional_hosts[h].ttl =
            MinTtlOr300(OfName(OfType(additionals, {"A", "AAAA"}), h))

\* the SRV records of the ADDITIONAL section whose owner name spells sd
SrvsOf(additionals, sd) ==
    SubSeqAt(additionals, {i \in 1..Len(additionals) :
                              /\ additionals[i].rtype = "SRV"
                              /\ SrvDomainTryFrom(additionals[i].name) = Some(sd)})

\* C24: every record a DNS client builds carries the smallest TTL of the
\* resource records it was built from: the NAPTR, SRV or A/AAAA records of the
\* answer, and for the SrvRecords and AddrRecords built from the ADDITIONAL
\* section the SRV or A/AAAA records of their owner name.
C24_TtlIsRRsetMinimum ==
    root.kind = "client" =>
        \A r \in 1..Len(out) :
            LET res == out[r].res
            IN CASE out[r].op = "naptr_lookup" ->
                       res.tag = "Some" =>
                           /\ res.val.ttl = MinTtlOr300(OfType(zone.first.answers, {"NAPTR"}))
                           /\ \A sd \in DOMAIN res.val.additional_srvs :
                                 /\ res.val.additional_srvs[sd].ttl =
                                        MinTtlOr300(SrvsOf(zone.first.additionals, sd))
                                 /\ HostsCarryMinTtl(
                                        res.val.additional_srvs[sd].additional_hosts,
                                        zone.first.additionals)
                 [] out[r].op = "srv_lookup" ->
                       res.tag = "Some" =>
                           /\ res.val.ttl = MinTtlOr300(OfType(zone.first.answers, {"SRV"}))
                           /\ HostsCarryMinTtl(res.val.additional_hosts,
                                               zone.first.additionals)
                 [] OTHER ->
                       res.tag = "Ok" =>
                           res.val.ttl = MinTtlOr300(
                               (IF Usable(zone.first)
                                THEN OfType(zone.first.answers, {"A"}) ELSE <<>>)
                               \o (IF Usable(zone.second)
                                   THEN OfType(zone.second.answers, {"AAAA"}) ELSE <<>>))

\* the response arrived and carries a response code other than NoError
Refused(resp) == resp.recv /\ resp.rcode # "NoError"

\* the addresses of the records of a section
AddrsIn(recs) == {recs[i].addr : i \in 1..Len(recs)}

\* C25: the direct UDP client builds nothing from a response whose response
\* code is not NoError: naptr_lookup and srv_lookup return None, and ip_lookup
\* lists no address of that response, failing when the other query gave no
\* address either.
C25_RefusedResponseYieldsNothing ==
    (root.kind = "client" /\ root.node = "RecursiveHickoryClient") =>
        \A r \in 1..Len(out) :
            LET res == out[r].res
            IN IF out[r].op \in {"naptr_lookup", "srv_lookup"}
               THEN Refused(zone.first) => res = None
               ELSE /\ (Refused(zone.first) /\ res.tag = "Ok") =>
                          Range(res.val.ip_addrs) \cap AddrsIn(zone.first.answers) = {}
                    /\ (Refused(zone.second) /\ res.tag = "Ok") =>
                          Range(res.val.ip_addrs) \cap AddrsIn(zone.second.answers) = {}
                    /\ (/\ Refused(zone.first)
                        /\ ~Usable(zone.second) \/ OfType(zone.second.answers, {"AAAA"}) = <<>>)
                           => res.tag = "Err"
                    /\ (/\ Refused(zone.second)
                        /\ ~Usable(zone.first) \/ OfType(zone.first.answers, {"A"}) = <<>>)
                           => res.tag = "Err"

\* the A query of an ip_lookup was answered ServFail with A records in the
\* message, the AAAA query NoError with an address: the lookup returned the
\* AAAA address alone
C25_Witness ==
    /\ root.kind = "client" /\ root.node = "RecursiveHickoryClient"
    /\ Len(out) = 1 /\ out[1].op = "ip_lookup"
    /\ Refused(zone.first) /\ OfType(zone.first.answers, {"A"}) # <<>>
    /\ out[1].res.tag = "Ok" /\ out[1].res.val.ip_addrs = <<6>>

\* the addresses an ip_lookup obtained: those of the A records of the A
\* response, then those of the AAAA records of the AAAA response, a response
\* that did not arrive or was refused giving none
Obtained ==
    LET a    == IF Usable(zone.first) THEN OfType(zone.first.answers, {"A"}) ELSE <<>>
        aaaa == IF Usable(zone.second) THEN OfType(zone.second.answers, {"AAAA"}) ELSE <<>>
    IN [i \in 1..Len(a) |-> a[i].addr] \o [i \in 1..Len(aaaa) |-> aaaa[i].addr]

\* C26: ip_lookup of every client fails exactly when neither query gave an
\* address; otherwise its AddrRecord lists the A addresses in answer order
\* followed by the AAAA addresses, whether or not one of the queries failed.
C26_IpLookupErrIffNoAddress ==
    root.kind = "client" =>
        \A r \in 1..Len(out) :
            out[r].op = "ip_lookup" =>
                /\ out[r].res.tag = "Err" <=> Obtained = <<>>
                /\ out[r].res.tag = "Ok" =>
                      /\ out[r].res.val.ip_addrs # <<>>
                      /\ out[r].res.val.ip_addrs = Obtained

\* two A addresses, the larger first, and an AAAA address: returned in that order
C26_Witness ==
    /\ root.kind = "client" /\ Len(out) = 1 /\ out[1].op = "ip_lookup"
    /\ out[1].res.tag = "Ok" /\ out[1].res.val.ip_addrs = <<2, 1, 6>>

\* the calls of the caller that were cancelled
Cancels == {e \in 1..Len(events) : events[e].op = "cancel"}

\* C27: a resolve_next call dropped while it is suspended at a DNS lookup
\* returns nothing, and the calls made after it return what the calls of a
\* caller that was never cancelled return on the same DNS data: the same
\* Targets in the same order, none skipped or repeated, and the same end.
C27_CancellationSafe ==
    /\ [][(Len(events') > Len(events) /\ events'[Len(events')].op = "cancel")
             => out' = out]_vars
    /\ [](root.kind \in {"ip", "addr", "srv", "naptr", "jdl"} /\ twin # None
             => out = twin.out)

\* a just-domain lookup whose calls were dropped at the naptr_lookup and, driven
\* again, at the ip_lookup of an SRV target, and that went on to yield its
\* Targets and end
C27_Witness ==
    /\ root.kind = "jdl" /\ Exhausted
    /\ Len(events) = 2 /\ Cancels = {1, 2}
    /\ events[1].at = "naptr" /\ events[2].at = "ip"
    /\ Cardinality(Yields) >= 2

\* the lookups of one kind and name issued so far
CallsOf(kind, name) ==
    Cardinality({c \in 1..Len(calls) : calls[c].kind = kind /\ calls[c].name = name})

\* the calls that were dropped while a lookup of that kind and name was outstanding
CancelsAt(kind, name) ==
    Cardinality({e \in Cancels : events[e].at = kind /\ events[e].name = name})

\* the names looked up so far with lookups of one kind
NamesOf(kind) == {calls[c].name : c \in {d \in 1..Len(calls) : calls[d].kind = kind}}

\* the A/AAAA resolvables for host h that look h up themselves: the one of an
\* A/AAAA lookup, or one per SRV entry that points at h when the SRV record
\* carries no glue for h
AddrResolvables(h) ==
    IF root.kind = "addr" THEN 1
    ELSE Cardinality({j \in 1..Len(zone.srv) :
                         /\ zone.srv[j].target = h
                         /\ ~(h \in zone.glue_hosts /\ zone.ip[h].tag = "Some")})

\* C28 as stated: no resolvable issues its initializing lookup more than once:
\* one naptr_lookup, one srv_lookup per SRV domain, and one ip_lookup per
\* A/AAAA resolvable of a host.
C28_LookupAtMostOnce ==
    (root.kind \in {"ip", "addr", "srv", "jdl"} /\ twin # None) =>
        /\ \A n \in NamesOf("naptr") : CallsOf("naptr", n) <= 1
        /\ \A sd \in NamesOf("srv") : CallsOf("srv", sd) <= 1
        /\ \A h \in NamesOf("ip") : CallsOf("ip", h) <= AddrResolvables(h)

\* C28, amended: a resolvable issues its initializing lookup again only when
\* the call that issued it was dropped before the answer came; once a lookup
\* has been answered (with a record, an empty record or a failure) it is never
\* issued again, not even after the resolvable is exhausted.
C28_LookupAnsweredAtMostOnce ==
    (root.kind \in {"ip", "addr", "srv", "jdl"} /\ twin # None) =>
        /\ \A n \in NamesOf("naptr") :
              CallsOf("naptr", n) <= 1 + CancelsAt("naptr", n)
        /\ \A sd \in NamesOf("srv") :
              CallsOf("srv", sd) <= 1 + CancelsAt("srv", sd)
        /\ \A h \in NamesOf("ip") :
              CallsOf("ip", h) <= AddrResolvables(h) + CancelsAt("ip", h)

\* an SRV entry's host whose ip_lookup failed, after a call had been dropped
\* during that lookup: looked up twice and, with resolve_next called again
\* after the end, no third time
C28_Witness ==
    /\ root.kind = "jdl" /\ Exhausted /\ NoneCount = 2
    /\ Len(zone.srv) = 1 /\ zone.ip["t1"] = None
    /\ CancelsAt("ip", "t1") = 1
    /\ CallsOf("ip", "t1") = 2
    /\ CallsOf("naptr", BareDomain) = 1

\* the SRV domains of the SRV children in the order they are driven: the one of
\* an SRV resolvable, or those of the qualifying entries of the NAPTR answer in
\* the order NaptrRecord::iter() visits them
Children ==
    IF root.kind = "srv" THEN <<root.node.domain>>
    ELSE IF zone.naptr.tag = "None" THEN <<>>
    ELSE LET es == SubSeqAt(zone.naptr.val, Qualifying)
             it == SortByKey(es, [i \in 1..Len(es) |-> NaptrOrderKey(es[i])])
         IN [i \in 1..Len(it) |-> NaptrEntryToSrvDomain(it[i]).val]

\* the Targets among the results o that come from entry j of SRV child c
YieldedOf(o, c, j) ==
    Cardinality({i \in 1..Len(o) :
                    /\ o[i].tag = "Some"
                    /\ o[i].val.transport = SrvDomainTransport(Children[c])
                    /\ o[i].val.port = zone.srv[j].port})

\* the child of entry j of SRV child c has nothing left: every address of the
\* entry's target is among the results o
Drained(o, c, j) == YieldedOf(o, c, j) = Len(AddrsOf(zone.srv[j].target))

\* everything ahead of entry j of SRV child c has returned None: the SRV
\* children before c, and the entries before j in c
NextInLine(o, c, j) ==
    /\ \A c0 \in 1..(c - 1) : \A i \in 1..Len(zone.srv) : Drained(o, c0, i)
    /\ \A i \in 1..(j - 1) : Drained(o, c, i)

\* query q, issued by a call made after the results o, is that of the child
\* next in line, and that child is not behind entry jmax of SRV child cmax
InTurn(q, o, cmax, jmax) ==
    IF q.kind = "srv"
    THEN \E c \in 1..Len(Children) :
            /\ Children[c] = q.name
            /\ c <= cmax
            /\ NextInLine(o, c, 1)
    ELSE IF q.kind = "ip"
    THEN \E c \in 1..Len(Children) : \E j \in 1..Len(zone.srv) :
            /\ zone.srv[j].target = q.name
            /\ c < cmax \/ (c = cmax /\ j <= jmax)
            /\ NextInLine(o, c, j)
            /\ YieldedOf(o, c, j) = 0
    ELSE TRUE

\* the queries of the call that took the results from o to o2 and the queries
\* from cs to cs2 were all in turn; when the call returned a Target, none of
\* them is for a child behind the one the Target came from
LazyCall(o, cs, o2, cs2) ==
    (Len(o2) = Len(o) + 1) =>
        LET last == o2[Len(o2)]
            cmax == IF last.tag = "Some"
                    THEN CHOOSE c \in 1..Len(Children) :
                             SrvDomainTransport(Children[c]) = last.val.transport
                    ELSE Len(Children)
            jmax == IF last.tag = "Some" THEN EntryIndex(last.val) ELSE Len(zone.srv)
        IN \A n \in (Len(cs) + 1)..Len(cs2) : InTurn(cs2[n], o, cmax, jmax)

\* C29: the children are driven left to right and lazily: the ip_lookup for an
\* SRV entry and the srv_lookup of an SRV child of a NAPTR resolvable are issued
\* only once every entry and child before them has returned None, and a call
\* that returns a Target issues no query for a child behind the one the Target
\* comes from; with a client that carries glue and with one that does not.
C29_LazyLeftToRight ==
    [][(root.kind \in {"srv", "jdl"} /\ twin # None) =>
          /\ LazyCall(out, calls, out', calls')
          /\ LazyCall(twin.out, twin.calls, twin'.out, twin'.calls)]_vars

\* a NAPTR answer with two qualifying entries and SRV records of two entries:
\* the client without glue was asked two srv_lookups and four ip_lookups, and
\* every address was yielded
C29_Witness ==
    /\ root.kind = "jdl" /\ Exhausted /\ twin # None
    /\ Len(Children) = 2 /\ Len(zone.srv) = 2
    /\ Cardinality({c \in 1..Len(twin.calls) : twin.calls[c].kind = "srv"}) = 2
    /\ Cardinality({c \in 1..Len(twin.calls) : twin.calls[c].kind = "ip"}) = 4
    /\ Cardinality(Yields) = 2 * (Len(AddrsOf("t1")) + Len(AddrsOf("t2")))
    /\ Len(AddrsOf("t1")) = 2 /\ Len(AddrsOf("t2")) >= 1

\* the hosts the SRV record of the run has in additional_hosts
GluedHosts == {h \in SrvTargets(zone.srv) \cap zone.glue_hosts : zone.ip[h].tag = "Some"}

\* the hosts of the ip_lookups issued so far, in order
IpCallHosts ==
    LET ips == SubSeqAt(calls, {c \in 1..Len(calls) : calls[c].kind = "ip"})
    IN [i \in 1..Len(ips) |-> ips[i].name]

\* the targets of the entries without glue, in entry order
UngluedTargets ==
    LET es == SubSeqAt(zone.srv, {j \in 1..Len(zone.srv) : zone.srv[j].target \notin GluedHosts})
    IN [i \in 1..Len(es) |-> es[i].target]

\* the addresses of the Targets yielded with the port of entry j, in order
YieldedAddrs(j) ==
    LET ts == SubSeqAt(out, {i \in Yields : out[i].val.port = zone.srv[j].port})
    IN [i \in 1..Len(ts) |-> ts[i].val.ip_addr]

\* C30: with glue for some of the targets of an SrvRecord, the ip_lookups of
\* the SRV resolvable are those of the entries whose target is not in
\* additional_hosts, one per such entry in entry order and none for a glued
\* target, and an entry with a glued target yields one Target per glue
\* address, in glue order, with the port of the entry.
C30_PartialGlue ==
    ThroughSrv =>
        /\ Range(IpCallHosts) \cap GluedHosts = {}
        /\ Len(IpCallHosts) <= Len(UngluedTargets)
        /\ IpCallHosts = SubSeq(UngluedTargets, 1, Len(IpCallHosts))
        /\ Exhausted =>
              /\ IpCallHosts = UngluedTargets
              /\ \A j \in 1..Len(zone.srv) :
                    zone.srv[j].target \in GluedHosts =>
                        YieldedAddrs(j) = AddrsOf(zone.srv[j].target)

\* an SRV record of two entries with glue for the first target only: two
\* Targets from the glue, one ip_lookup, for the second target, and its Target
C30_Witness ==
    /\ root.kind = "srv" /\ Exhausted
    /\ Len(zone.srv) = 2 /\ zone.srv[1].target = "t1"
    /\ GluedHosts = {"t1"}
    /\ YieldedAddrs(1) = <<2, 1>>
    /\ IpCallHosts = <<"t2">>
    /\ Len(YieldedAddrs(2)) >= 1


----------------------------------------------------------------------------
(* The fallback phases of the just-domain machine *)

\* the queries the machine issued while in the given phase, in order
CallsIn(phase) ==
    LET RECURSIVE From(_)
        From(i) == IF i > Len(calls) THEN <<>>
                   ELSE IF calls[i].phase = phase THEN <<calls[i]>> \o From(i + 1)
                   ELSE From(i + 1)
    IN From(1)

\* C31: when NAPTR gave nothing, the SRV fallback phase holds one SRV resolvable
\* per available protocol, in order, each on SrvDomain(secure, protocol, bare
\* domain), and drives them in that order, each to exhaustion: by the time the
\* call returns None the srv_lookups of the phase are those domains in order
C31_SrvFallbackPerProtocol ==
    (/\ IsJdl
     /\ NaptrAnswered /\ replies[1].tag = "None"
     /\ \A i \in 1..Len(replies) : replies[i].tag = "None"
     /\ \E i \in 1..Len(out) : out[i].tag = "None")
        => /\ Len(CallsIn("TryingSrvFallbacks")) = Len(root.ctx.available_protocols)
           /\ \A i \in 1..Len(root.ctx.available_protocols) :
                  /\ CallsIn("TryingSrvFallbacks")[i].kind = "srv"
                  /\ CallsIn("TryingSrvFallbacks")[i].name =
                         SrvDomain(root.ctx.secure,
                                   Protocol(root.ctx.available_protocols[i]),
                                   root.ctx.host)

----------------------------------------------------------------------------
(* The pre-fetched constructors, driven on their own *)

\* the glue a pre-fetched record can carry for a host: the addresses of the
\* host, or an AddrRecord that holds no address at all
PrefetchGlue(host) ==
    GlueRecords(host) \cup {AddrRecord(host, <<>>, ttl) : ttl \in GlueTtls}

\* the SrvRecords handed to from_srv_record: any entries (none included), with
\* glue for any of their hosts
PrefetchRecords(sd) ==
    UNION {UNION {{SrvRecord(es, sd, ttl, hosts) :
                      ttl \in SrvTtls,
                      hosts \in {f \in [H -> UNION {PrefetchGlue(h) : h \in H}] :
                                    \A h \in H : f[h] \in PrefetchGlue(h)}} :
                  H \in SUBSET SrvTargets(es)} :
           es \in SrvEntryLists}

\* how the resolvable under test was constructed
PrefetchOrigins ==
    {[op |-> "from_srv_record", srv_record |-> rec, ip_addr |-> 0] :
        rec \in PrefetchRecords(SrvDomain(FALSE, "Tcp", BareDomain))}
    \cup {[op |-> "from_resolvable_ip", srv_record |-> None, ip_addr |-> ip] :
             ip \in 1..MaxAddrs}

PrefetchRoot(origin) ==
    IF origin.op = "from_srv_record"
    THEN [kind |-> "srv", node |-> SrvFromSrvRecord(origin.srv_record), ctx |-> None]
    ELSE [kind |-> "addr",
          node |-> AddrFromResolvableIp("t1", 5061, "Tcp",
                       IpNewWithTtl(origin.ip_addr, 5061, "Tcp", 120)),
          ctx |-> None]

PrefetchInit ==
    /\ \E origin \in PrefetchOrigins : zone = origin /\ root = PrefetchRoot(origin)
    /\ pc = "idle"
    /\ state_before = "Unset"
    /\ inflight = <<>>
    /\ calls = <<>>
    /\ replies = <<>>
    /\ out = <<>>
    /\ events = <<>>
    /\ twin = None

PrefetchNext == ResolveNext \/ IpReply

PrefetchSpec == PrefetchInit /\ [][PrefetchNext]_vars

\* nothing has been done to the resolvable since it was constructed
Fresh == calls = <<>> /\ out = <<>>

\* the record has an entry from_srv_record builds a child for: an entry without
\* glue, or with glue that holds at least one address
HasChild(rec) ==
    \E i \in 1..Len(rec.entries) :
        \/ rec.entries[i].target \notin DOMAIN rec.additional_hosts
        \/ rec.additional_hosts[rec.entries[i].target].ip_addrs # <<>>

\* C33 (as stated): a resolvable built by from_srv_record, whatever the record
\* (zero entries and glue without addresses included), reports NonEmpty and
\* never issues srv_lookup; one built by from_resolvable_ip reports NonEmpty and
\* never issues ip_lookup
C33_PrefetchedStartNonEmpty ==
    /\ Fresh => RootState(root) = "NonEmpty"
    /\ \A i \in 1..Len(calls) :
           calls[i].kind # (IF zone.op = "from_srv_record" THEN "srv" ELSE "ip")

\* C33 (amended): a resolvable built by from_srv_record is never Unset and never
\* issues srv_lookup; it reports NonEmpty when the record has an entry without
\* glue or with glue holding an address, and Empty when no child was built; one
\* built by from_resolvable_ip reports NonEmpty and never issues ip_lookup
C33_PrefetchedStartInitialized ==
    /\ RootState(root) # "Unset"
    /\ Fresh =>
          RootState(root) =
              (IF zone.op = "from_srv_record" /\ ~HasChild(zone.srv_record)
               THEN "Empty" ELSE "NonEmpty")
    /\ \A i \in 1..Len(calls) :
           calls[i].kind # (IF zone.op = "from_srv_record" THEN "srv" ELSE "ip")

\* a resolvable built from a record with glue for one host only was drained:
\* it yielded, looked up the other host and returned None
C33_Witness ==
    /\ zone.op = "from_srv_record"
    /\ Len(zone.srv_record.entries) = 2
    /\ DOMAIN zone.srv_record.additional_hosts = {"t1"}
    /\ \E i \in Yields : TRUE
    /\ \E i \in 1..Len(calls) : calls[i].kind = "ip"
    /\ out # <<>> /\ out[Len(out)].tag = "None"

----------------------------------------------------------------------------
(* What state() of the just-domain machine tells the caller *)

\* C34 (as stated): between resolve_next calls, when state() of a just-domain
\* lookup reports Empty the next resolve_next returns None, and Empty stays (no
\* later phase yields after it); state() reports Unset only if resolve_next
\* has never been called
C34_JdlStateMeaning ==
    /\ [][(IsJdl /\ RootState(root) = "Empty")
             => /\ RootState(root') = "Empty"
                /\ Len(out') > Len(out) =>
                      (Len(out') = Len(out) + 1 /\ out'[Len(out')].tag = "None")]_vars
    /\ []((IsJdl /\ RootState(root) = "Unset") => (out = <<>> /\ calls = <<>>))

\* C34 (amended): as above, but state() reports Unset only if no resolve_next
\* call has returned: every call made so far was dropped while suspended at the
\* naptr_lookup
C34_JdlStateMeaningOfReturnedCalls ==
    /\ [][(IsJdl /\ RootState(root) = "Empty")
             => /\ RootState(root') = "Empty"
                /\ Len(out') > Len(out) =>
                      (Len(out') = Len(out) + 1 /\ out'[Len(out')].tag = "None")]_vars
    /\ []((IsJdl /\ RootState(root) = "Unset")
             => /\ out = <<>>
                /\ \A i \in 1..Len(calls) : calls[i].kind = "naptr"
                /\ Len(calls) = Cardinality(Cancels)
                /\ \A e \in Cancels : events[e].at = "naptr")
    /\ []((IsJdl /\ out # <<>>) => RootState(root) # "Unset")

\* a just-domain lookup whose first call was dropped at the naptr_lookup, whose
\* state() then reported Unset, and which was driven to Empty and called again
C34_Witness ==
    /\ IsJdl
    /\ Len(events) = 2
    /\ events[1].op = "cancel" /\ events[1].at = "naptr"
    /\ events[2].op = "state" /\ events[2].res = "Unset"
    /\ RootState(root) = "Empty"
    /\ Len(out) >= 3
    /\ out[1].tag = "Some"
    /\ out[Len(out) - 1].tag = "None" /\ out[Len(out)].tag = "None"

----------------------------------------------------------------------------
(* The arithmetic of SrvEntry::total_weight *)

\* C35: total_weight is exact for every priority and weight: it returns the
\* integer (10000 - priority) + weight of every entry of the record, and
\* sorted() never panics
C35_TotalWeightExact ==
    root.kind = "record" =>
        /\ \A i \in 1..Len(root.node.entries) :
               /\ ~total_weight_overflows(root.node.entries[i])
               /\ total_weight(root.node.entries[i]) = Key(root.node.entries[i])
        /\ \A r \in 1..Len(out) : out[r] # Panic

\* C36: all the Targets one just-domain lookup yields come from one phase: the
\* NAPTR chain, the SRV fallbacks, or the A/AAAA fallback on the bare domain
C36_SinglePhaseOrigin ==
    IsJdl =>
        /\ \A i \in Yields :
               out[i].phase \in {"TryingNaptr", "TryingSrvFallbacks", "TryingAddrFallback"}
        /\ \A i \in Yields : \A k \in Yields : out[i].phase = out[k].phase

\* a just-domain lookup yielded Targets of two SRV records and reached its end
C36_Witness ==
    /\ IsJdl
    /\ Cardinality(Yields) >= 2
    /\ Cardinality({out[i].val.transport : i \in Yields}) >= 2
    /\ out[Len(out)].tag = "None"
    /\ root.node.phase = "Done"

----------------------------------------------------------------------------
(* Draining a just-domain lookup to its end *)

DrainInit ==
    /\ root \in {[kind |-> "jdl", node |-> JdlNew(ctx), ctx |-> ctx] : ctx \in Contexts}
    /\ zone \in DriveZones
    /\ twin = None
    /\ pc = "idle"
    /\ state_before = "Unset"
    /\ inflight = <<>>
    /\ calls = <<>>
    /\ replies = <<>>
    /\ out = <<>>
    /\ events = <<>>

\* the DNS client returns from the outstanding lookup with the records of the
\* zone, and the suspended call goes on
DrainReply ==
    /\ pc = "await"
    /\ Resume(ZoneAnswer(zone, Head(inflight), TRUE))

DrainNext == ResolveNext \/ DrainReply

\* a DrainReply step, told by what it always does: the answer of the zone to
\* the outstanding lookup is added to replies
LookupReturns ==
    /\ pc = "await"
    /\ replies' = Append(replies, ZoneAnswer(zone, Head(inflight), TRUE))

\* a ResolveNext step, told by what it always does: the call suspends at a
\* lookup, or returns one result
CalledAgain ==
    /\ pc = "idle"
    /\ NoneCount < MaxNoneCalls
    /\ \/ pc' = "await" /\ out' = out
       \/ pc' = "idle" /\ Len(out') = Len(out) + 1

\* a caller that keeps calling resolve_next, against a DNS client whose every
\* lookup returns
DrainSpec ==
    /\ DrainInit /\ [][DrainNext]_vars
    /\ WF_replies(LookupReturns)
    /\ WF_<<pc, out>>(CalledAgain)

\* C37: every resolve_next call on a just-domain lookup returns, and the
\* caller that calls again and again gets None from a machine that has reached
\* Done, after finitely many Targets
C37_DrainingTerminates ==
    /\ (pc = "await") ~> (pc = "idle")
    /\ IsJdl ~> (/\ root.node.phase = "Done"
                 /\ pc = "idle"
                 /\ out # <<>> /\ out[Len(out)].tag = "None")

\* a just-domain lookup that ended after yielding the addresses of two SRV
\* targets
C37_Witness ==
    /\ IsJdl
    /\ root.node.phase = "Done" /\ pc = "idle"
    /\ out # <<>> /\ out[Len(out)].tag = "None"
    /\ Cardinality(Yields) >= 3
    /\ Cardinality({calls[i].name : i \in {k \in 1..Len(calls) : calls[k].kind = "ip"}}) = 2

\* C38: every Target a NAPTR resolvable yields has a transport that is one of
\* the available_transports the resolvable was constructed with
C38_TransportAmongAvailable ==
    root.kind = "naptr" =>
        \A i \in Yields :
            \E k \in 1..Len(root.node.available_transports) :
                out[i].val.transport = root.node.available_transports[k]

----------------------------------------------------------------------------
(* The transaction ID of the responses the direct UDP client receives *)

\* C39: the direct UDP client turns no response into a record when its
\* transaction ID differs from the query's: naptr_lookup and srv_lookup return
\* None, and ip_lookup lists no address of that response
C39_MismatchedIdYieldsNothing ==
    (/\ root.kind = "client" /\ root.node = "RecursiveHickoryClient"
     /\ zone.first.recv /\ zone.first.id # QueryId)
        => \A r \in 1..Len(out) :
               IF out[r].op \in {"naptr_lookup", "srv_lookup"}
               THEN out[r].res = None
               ELSE out[r].res.tag = "Ok" =>
                        Range(out[r].res.val.ip_addrs) \cap AddrsIn(zone.first.answers) = {}

====
